---------------------------- MODULE Spec2Model ----------------------------
(***************************************************************************)
(* Model of the canvas-shapes interaction controller (src/app/page.tsx,    *)
(* the variant with the select tool, lines 278-965): the React state cells *)
(* of Home(), the pointer / keyboard / toolbar / file handlers, and the    *)
(* geometry kernel they call.                                              *)
(*                                                                         *)
(* Numbers.  JavaScript numbers are modelled as exact rationals <<n, d>>   *)
(* in lowest terms with d > 0.  A distance (Math.hypot) is kept as its     *)
(* square wherever the code only compares it, and is taken exactly where   *)
(* the code stores it (a circle's radius); see Hypot.                      *)
(***************************************************************************)
EXTENDS Integers, Sequences, FiniteSets, TLC

(***************************************************************************)
(* Bounds of the model.                                                    *)
(***************************************************************************)
MaxSteps   == 5    \* events handled in a behaviour
MaxZoomIns == 1    \* zoom-in steps above the initial zoom explored
NumIds     == 2    \* distinct outcomes of generateId explored

(***************************************************************************)
(* Program constants.                                                      *)
(***************************************************************************)
GRID_SIZE     == 20
HitRadius     == 10
CanvasLeft    == 80
CanvasTop     == 0

(***************************************************************************)
(* Exact rational arithmetic.                                              *)
(***************************************************************************)
RECURSIVE GCD(_, _)
GCD(a, b) == IF b = 0 THEN a ELSE GCD(b, a % b)

IAbs(n) == IF n < 0 THEN -n ELSE n

Rat(n, d) ==
    LET s == IF d < 0 THEN -1 ELSE 1
        g == GCD(IAbs(n), IAbs(d))
    IN  <<(s * n) \div g, (s * d) \div g>>

R(n) == <<n, 1>>

Add(a, b) ==
    LET g == GCD(a[2], b[2])
    IN  Rat(a[1] * (b[2] \div g) + b[1] * (a[2] \div g), (a[2] \div g) * b[2])

Neg(a) == <<-a[1], a[2]>>

Sub(a, b) == Add(a, Neg(b))

Mul(a, b) ==
    LET g1 == GCD(IAbs(a[1]), b[2])
        g2 == GCD(IAbs(b[1]), a[2])
    IN  Rat((a[1] \div g1) * (b[1] \div g2), (a[2] \div g2) * (b[2] \div g1))

Div(a, b) == Mul(a, Rat(b[2], b[1]))

Lt(a, b) ==
    LET g == GCD(a[2], b[2])
    IN  a[1] * (b[2] \div g) < b[1] * (a[2] \div g)

Le(a, b) == ~Lt(b, a)

Min(a, b) == IF Lt(b, a) THEN b ELSE a

Max(a, b) == IF Lt(a, b) THEN b ELSE a

Abs(a) == <<IAbs(a[1]), a[2]>>

Sq(a) == Mul(a, a)

Floor(a) == a[1] \div a[2]

\* Math.round: nearest integer, a tie goes towards +Infinity.
MathRound(a) == Floor(Add(a, <<1, 2>>))

IsSquare(n) == \E r \in 0..n : r * r = n

ISqrt(n) == CHOOSE r \in 0..n : r * r = n

\* Math.hypot on integer legs whose hypotenuse is an integer.
Hypot(dx, dy) == R(ISqrt(dx[1] * dx[1] + dy[1] * dy[1]))

HypotExact(dx, dy) ==
    /\ dx[2] = 1
    /\ dy[2] = 1
    /\ IsSquare(dx[1] * dx[1] + dy[1] * dy[1])

Pt(x, y) == [x |-> x, y |-> y]

(***************************************************************************)
(* Geometry kernel.                                                        *)
(***************************************************************************)
\* Variant of snap that rounds down.
snapDown(n) == R(Floor(Div(n, R(GRID_SIZE))) * GRID_SIZE)

snap(n) == R(MathRound(Div(n, R(GRID_SIZE))) * GRID_SIZE)


NoBounds == [none |-> TRUE]

RECURSIVE MinOf(_, _)
MinOf(xs, i) == IF i = Len(xs) THEN xs[i] ELSE Min(xs[i], MinOf(xs, i + 1))

RECURSIVE MaxOf(_, _)
MaxOf(xs, i) == IF i = Len(xs) THEN xs[i] ELSE Max(xs[i], MaxOf(xs, i + 1))

Xs(points) == [i \in 1..Len(points) |-> points[i].x]

Ys(points) == [i \in 1..Len(points) |-> points[i].y]

getShapeBounds(shape) ==
    CASE shape.type = "pen" ->
           IF Len(shape.points) = 0 THEN NoBounds
           ELSE LET minX == MinOf(Xs(shape.points), 1)
                    minY == MinOf(Ys(shape.points), 1)
                    maxX == MaxOf(Xs(shape.points), 1)
                    maxY == MaxOf(Ys(shape.points), 1)
                IN  [x |-> minX, y |-> minY, w |-> Sub(maxX, minX), h |-> Sub(maxY, minY)]
      [] shape.type = "rect" ->
           [x |-> shape.x, y |-> shape.y, w |-> shape.w, h |-> shape.h]
      [] shape.type = "circle" ->
           [x |-> Sub(shape.cx, shape.r), y |-> Sub(shape.cy, shape.r),
            w |-> Mul(shape.r, R(2)), h |-> Mul(shape.r, R(2))]
      [] shape.type = "line" ->
           [x |-> Min(shape.x1, shape.x2), y |-> Min(shape.y1, shape.y2),
            w |-> Abs(Sub(shape.x2, shape.x1)), h |-> Abs(Sub(shape.y2, shape.y1))]

\* distanceToSegment, squared: the square of the value the code returns.
distanceToSegmentSq(p, a, b) ==
    LET dx == Sub(b.x, a.x)
        dy == Sub(b.y, a.y)
        length2 == Add(Sq(dx), Sq(dy))
    IN  IF length2 = R(0)
        THEN Add(Sq(Sub(p.x, a.x)), Sq(Sub(p.y, a.y)))
        ELSE LET t == Max(R(0), Min(R(1),
                        Div(Add(Mul(Sub(p.x, a.x), dx), Mul(Sub(p.y, a.y), dy)), length2)))
                 projX == Add(a.x, Mul(t, dx))
                 projY == Add(a.y, Mul(t, dy))
             IN  Add(Sq(Sub(p.x, projX)), Sq(Sub(p.y, projY)))

\* |dist - r| < th, that is r - th < dist < r + th, given dist2 = dist * dist
\* with dist >= 0.
NearRadius(dist2, r, th) ==
    LET lo == Sub(r, th)
        hi == Add(r, th)
    IN  /\ Lt(R(0), hi) /\ Lt(dist2, Sq(hi))
        /\ Lt(lo, R(0)) \/ Lt(Sq(lo), dist2)

\* dist < r, given dist2 = dist * dist with dist >= 0.
InsideRadius(dist2, r) == Lt(R(0), r) /\ Lt(dist2, Sq(r))

isPointInShape(point, shape, z) ==
    LET hitThreshold == Div(R(HitRadius), z)
    IN  CASE shape.type = "pen" ->
               \E i \in 1..(Len(shape.points) - 1) :
                   Lt(distanceToSegmentSq(point, shape.points[i], shape.points[i + 1]),
                      Sq(hitThreshold))
          [] shape.type = "rect" ->
               /\ Le(shape.x, point.x)
               /\ Le(point.x, Add(shape.x, shape.w))
               /\ Le(shape.y, point.y)
               /\ Le(point.y, Add(shape.y, shape.h))
          [] shape.type = "circle" ->
               LET dist2 == Add(Sq(Sub(point.x, shape.cx)), Sq(Sub(point.y, shape.cy)))
               IN  NearRadius(dist2, shape.r, hitThreshold) \/ InsideRadius(dist2, shape.r)
          [] shape.type = "line" ->
               Lt(distanceToSegmentSq(point, Pt(shape.x1, shape.y1), Pt(shape.x2, shape.y2)),
                  Sq(hitThreshold))

(***************************************************************************)
(* Shape model.                                                            *)
(***************************************************************************)
\* Variant of moveShapeBy that shifts along x only.
moveShapeAlongX(shape, deltaX, deltaY) ==
    CASE shape.type = "pen" ->
           [shape EXCEPT !.points =
               [i \in 1..Len(shape.points) |->
                   Pt(Add(shape.points[i].x, deltaX), shape.points[i].y)]]
      [] shape.type = "rect" ->
           [shape EXCEPT !.x = Add(shape.x, deltaX)]
      [] shape.type = "circle" ->
           [shape EXCEPT !.cx = Add(shape.cx, deltaX)]
      [] shape.type = "line" ->
           [shape EXCEPT !.x1 = Add(shape.x1, deltaX), !.x2 = Add(shape.x2, deltaX)]

\* Variant of moveShapeBy that also stretches a rect and a circle.
moveShapeStretching(shape, deltaX, deltaY) ==
    CASE shape.type = "pen" ->
           [shape EXCEPT !.points =
               [i \in 1..Len(shape.points) |->
                   Pt(Add(shape.points[i].x, deltaX), Add(shape.points[i].y, deltaY))]]
      [] shape.type = "rect" ->
           [shape EXCEPT !.x = Add(shape.x, deltaX), !.y = Add(shape.y, deltaY),
                         !.w = Add(shape.w, deltaX)]
      [] shape.type = "circle" ->
           [shape EXCEPT !.cx = Add(shape.cx, deltaX), !.cy = Add(shape.cy, deltaY),
                         !.r = Add(shape.r, deltaY)]
      [] shape.type = "line" ->
           [shape EXCEPT !.x1 = Add(shape.x1, deltaX), !.y1 = Add(shape.y1, deltaY),
                         !.x2 = Add(shape.x2, deltaX), !.y2 = Add(shape.y2, deltaY)]

moveShapeBy(shape, deltaX, deltaY) ==
    CASE shape.type = "pen" ->
           [shape EXCEPT !.points =
               [i \in 1..Len(shape.points) |->
                   Pt(Add(shape.points[i].x, deltaX), Add(shape.points[i].y, deltaY))]]
      [] shape.type = "rect" ->
           [shape EXCEPT !.x = Add(shape.x, deltaX), !.y = Add(shape.y, deltaY)]
      [] shape.type = "circle" ->
           [shape EXCEPT !.cx = Add(shape.cx, deltaX), !.cy = Add(shape.cy, deltaY)]
      [] shape.type = "line" ->
           [shape EXCEPT !.x1 = Add(shape.x1, deltaX), !.y1 = Add(shape.y1, deltaY),
                         !.x2 = Add(shape.x2, deltaX), !.y2 = Add(shape.y2, deltaY)]

(***************************************************************************)
(* State of Home(): the useState cells, the 2D context, the file reads in  *)
(* flight.  steps counts the events handled so far.  lastDown is a history *)
(* of the latest pointer-down: the branch startDraw took and, for a pan    *)
(* pointer-down, its client position and the pan at that moment.           *)
(***************************************************************************)
VARIABLES tool, isDrawing, isPanning, isDragging, start, zoom, pan, shapes,
          selectedShapeIds, currentPenPoints, panStart, dragOffset,
          hasCtx, showGrid, showAxes, pendingFiles, reads, lastDown, steps

vars == <<tool, isDrawing, isPanning, isDragging, start, zoom, pan, shapes,
          selectedShapeIds, currentPenPoints, panStart, dragOffset,
          hasCtx, showGrid, showAxes, pendingFiles, reads, lastDown, steps>>

\* reads is a second history variable: for each file whose text is being
\* read, the scene at the moment the file was chosen, and for the read that
\* completed last, the scene when it was chosen and the scene just before
\* its shapes were appended.  Only SpecRace records it.
NoReads == [started |-> <<>>, done |-> <<>>]

Tools == {"pen", "rect", "circle", "line", "select"}

Ids == 1..NumIds

\* Pointer positions (client coordinates) the environment produces.
ClientPoints == {<<80, 0>>, <<104, 0>>, <<80, 24>>}

\* Button and modifier combinations: primary, primary + shift, primary + ctrl,
\* middle button.
Buttons ==
    {[button |-> 0, ctrlKey |-> FALSE, shiftKey |-> FALSE],
     [button |-> 0, ctrlKey |-> FALSE, shiftKey |-> TRUE],
     [button |-> 0, ctrlKey |-> TRUE, shiftKey |-> FALSE],
     [button |-> 1, ctrlKey |-> FALSE, shiftKey |-> FALSE]}

MouseEvents ==
    {[clientX |-> c[1], clientY |-> c[2], button |-> b.button,
      ctrlKey |-> b.ctrlKey, shiftKey |-> b.shiftKey] :
        c \in ClientPoints, b \in Buttons}

\* Pointer-move, -up and -leave handlers read the position only.
MoveEvents == {e \in MouseEvents : e.button = 0 /\ ~e.ctrlKey /\ ~e.shiftKey}


(***************************************************************************)
(* Viewport.                                                               *)
(***************************************************************************)
pos(e) ==
    LET canvasX == R(e.clientX - CanvasLeft)
        canvasY == R(e.clientY - CanvasTop)
    IN  Pt(Div(Sub(canvasX, pan.x), zoom), Div(Sub(canvasY, pan.y), zoom))

\* Number.prototype.toFixed(2) followed by parseFloat, for x >= 0: the nearest
\* hundredth, the upper one when x lies halfway.
ToFixed2(x) == Rat(Floor(Add(Mul(x, R(100)), <<1, 2>>)), 100)

\* The values toFixed(2) can give for the floating-point result whose exact
\* value is x >= 0.  Off a halfway point it is the nearest hundredth; where the
\* exact value lies halfway between two hundredths the rounding error of the
\* product or quotient decides, and either neighbour is possible.
ToFixed2Results(x) ==
    IF Sub(ToFixed2(x), x) = <<1, 200>>
    THEN {Sub(ToFixed2(x), <<1, 100>>), ToFixed2(x)}
    ELSE {ToFixed2(x)}

ZoomInStep(z) == Min(ToFixed2(Mul(z, <<6, 5>>)), R(5))

ZoomOutStep(z) == Max(ToFixed2(Div(z, <<6, 5>>)), <<1, 10>>)

\* Variant of ZoomInResults without the upper clamp.
ZoomInUnclamped(z) == ToFixed2Results(Mul(z, <<6, 5>>))

\* Math.min(parseFloat((z * 1.2).toFixed(2)), 5)
ZoomInResults(z) == {Min(r, R(5)) : r \in ToFixed2Results(Mul(z, <<6, 5>>))}

\* Math.max(parseFloat((z / 1.2).toFixed(2)), 0.1)
ZoomOutResults(z) == {Max(r, <<1, 10>>) : r \in ToFixed2Results(Div(z, <<6, 5>>))}

\* Variant of WheelResults with the factors 0.996 and 1.004.
WheelResultsFine(z, deltaY) ==
    LET delta == IF deltaY > 0 THEN <<249, 250>> ELSE <<251, 250>>
    IN  {Min(Max(r, <<1, 10>>), R(5)) : r \in ToFixed2Results(Mul(z, delta))}

\* Math.min(Math.max(parseFloat((zoom * delta).toFixed(2)), 0.1), 5) with
\* delta = e.deltaY > 0 ? 0.9 : 1.1
WheelResults(z, deltaY) ==
    LET delta == IF deltaY > 0 THEN <<9, 10>> ELSE <<11, 10>>
    IN  {Min(Max(r, <<1, 10>>), R(5)) : r \in ToFixed2Results(Mul(z, delta))}

InitialZoom == R(1)

RECURSIVE ZoomAfterIns(_)
ZoomAfterIns(k) == IF k = 0 THEN InitialZoom ELSE ZoomInStep(ZoomAfterIns(k - 1))

\* The zoom levels explored: from the initial zoom up to MaxZoomIns zoom-ins.
InZoomWindow(z) == Le(InitialZoom, z) /\ Le(z, ZoomAfterIns(MaxZoomIns))

handleZoomIn ==
    /\ zoom' \in ZoomInResults(zoom)
    /\ UNCHANGED <<tool, isDrawing, isPanning, isDragging, start, pan, shapes,
                   selectedShapeIds, currentPenPoints, panStart, dragOffset,
                   hasCtx, showGrid, showAxes, pendingFiles, reads, lastDown>>

handleZoomOut ==
    /\ zoom' \in ZoomOutResults(zoom)
    /\ UNCHANGED <<tool, isDrawing, isPanning, isDragging, start, pan, shapes,
                   selectedShapeIds, currentPenPoints, panStart, dragOffset,
                   hasCtx, showGrid, showAxes, pendingFiles, reads, lastDown>>

\* Variant of handleZoomReset that also empties the scene.
handleZoomResetAll ==
    /\ zoom' = R(1)
    /\ pan' = Pt(R(0), R(0))
    /\ shapes' = <<>>
    /\ UNCHANGED <<tool, isDrawing, isPanning, isDragging, start,
                   selectedShapeIds, currentPenPoints, panStart, dragOffset,
                   hasCtx, showGrid, showAxes, pendingFiles, reads, lastDown>>

handleZoomReset ==
    /\ zoom' = R(1)
    /\ pan' = Pt(R(0), R(0))
    /\ UNCHANGED <<tool, isDrawing, isPanning, isDragging, start, shapes,
                   selectedShapeIds, currentPenPoints, panStart, dragOffset,
                   hasCtx, showGrid, showAxes, pendingFiles, reads, lastDown>>

toggleGrid ==
    /\ showGrid' = ~showGrid
    /\ UNCHANGED <<tool, isDrawing, isPanning, isDragging, start, zoom, pan, shapes,
                   selectedShapeIds, currentPenPoints, panStart, dragOffset,
                   hasCtx, showAxes, pendingFiles, reads, lastDown>>

toggleAxes ==
    /\ showAxes' = ~showAxes
    /\ UNCHANGED <<tool, isDrawing, isPanning, isDragging, start, zoom, pan, shapes,
                   selectedShapeIds, currentPenPoints, panStart, dragOffset,
                   hasCtx, showGrid, pendingFiles, reads, lastDown>>

\* A wheel event: the cursor position and the sign of the scroll.
WheelEvents ==
    {[clientX |-> c[1], clientY |-> c[2], deltaY |-> dy] :
        c \in ClientPoints, dy \in {-100, 100}}

\* Variant of wheelPan that takes the canvas coordinate for the world one.
wheelPanOfCanvas(canvas, p, z, newZoom) == Sub(canvas, Mul(Div(canvas, z), newZoom))

\* One coordinate of the pan after a wheel event: world = (canvas - pan) / zoom,
\* newPan = canvas - world * newZoom.
wheelPan(canvas, p, z, newZoom) == Sub(canvas, Mul(Div(Sub(canvas, p), z), newZoom))

handleWheel(e) ==
    LET canvasX == R(e.clientX - CanvasLeft)
        canvasY == R(e.clientY - CanvasTop)
    IN  \E newZoom \in WheelResults(zoom, e.deltaY) :
           /\ zoom' = newZoom
           /\ pan' = Pt(wheelPan(canvasX, pan.x, zoom, newZoom),
                        wheelPan(canvasY, pan.y, zoom, newZoom))
           /\ UNCHANGED <<tool, isDrawing, isPanning, isDragging, start, shapes,
                          selectedShapeIds, currentPenPoints, panStart, dragOffset,
                          hasCtx, showGrid, showAxes, pendingFiles, reads, lastDown>>

(***************************************************************************)
(* Pointer handlers.                                                       *)
(***************************************************************************)
\* Variant of findLast that takes the first match.
findFirst(p) ==
    LET hits == {i \in 1..Len(shapes) : isPointInShape(p, shapes[i], zoom)}
    IN  IF hits = {} THEN 0 ELSE CHOOSE i \in hits : \A j \in hits : i <= j

\* shapes.findLast(shape => isPointInShape(p, shape)): its index, 0 if none.
findLast(p) ==
    LET hits == {i \in 1..Len(shapes) : isPointInShape(p, shapes[i], zoom)}
    IN  IF hits = {} THEN 0 ELSE CHOOSE i \in hits : \A j \in hits : j <= i

\* Variant of panAnchor that ignores the current pan.
panAnchorOfClient(e, p) == Pt(R(e.clientX), R(e.clientY))

\* { x: e.clientX - pan.x, y: e.clientY - pan.y }
panAnchor(e, p) == Pt(Sub(R(e.clientX), p.x), Sub(R(e.clientY), p.y))

\* Variant of toggled that never removes an id.
toggledAdding(prev, id) == prev \cup {id}

\* The updater of the shift-click: the set with id removed if present, added
\* if absent.
toggled(prev, id) == IF id \in prev THEN prev \ {id} ELSE prev \cup {id}

\* Variant of snapPoint that snaps x only.
snapPointX(p) == Pt(snap(p.x), p.y)

\* { x: snap(p.x), y: snap(p.y) }
snapPoint(p) == Pt(snap(p.x), snap(p.y))

startDraw(e) ==
    IF e.button = 1 \/ (e.button = 0 /\ e.ctrlKey)
    THEN /\ isPanning' = TRUE
         /\ panStart' = panAnchor(e, pan)
         /\ lastDown' = [branch |-> "pan", client |-> <<e.clientX, e.clientY>>,
                         pan |-> pan]
         /\ UNCHANGED <<tool, isDrawing, isDragging, start, zoom, pan, shapes,
                        selectedShapeIds, currentPenPoints, dragOffset,
                        hasCtx, showGrid, showAxes, pendingFiles, reads>>
    ELSE LET p == pos(e) IN
         IF tool = "select"
         THEN /\ UNCHANGED <<tool, isDrawing, isPanning, start, zoom, pan, shapes,
                             currentPenPoints, panStart, hasCtx, showGrid, showAxes, pendingFiles, reads>>
              /\ LET k == findLast(p) IN
                 IF k # 0
                 THEN LET clickedShape == shapes[k] IN
                      IF e.shiftKey
                      THEN /\ selectedShapeIds' =
                                  toggled(selectedShapeIds, clickedShape.id)
                           /\ lastDown' = [lastDown EXCEPT !.branch = "toggle"]
                           /\ UNCHANGED <<isDragging, dragOffset>>
                      ELSE LET bounds == getShapeBounds(clickedShape) IN
                           /\ selectedShapeIds' = {clickedShape.id}
                           /\ isDragging' = TRUE
                           /\ dragOffset' =
                                  IF bounds # NoBounds
                                  THEN Pt(Sub(p.x, bounds.x), Sub(p.y, bounds.y))
                                  ELSE dragOffset
                           /\ lastDown' = [lastDown EXCEPT !.branch = "hit"]
                 ELSE /\ selectedShapeIds' = {}
                      /\ lastDown' = [lastDown EXCEPT !.branch = "miss"]
                      /\ UNCHANGED <<isDragging, dragOffset>>
         ELSE LET s == snapPoint(p) IN
              /\ isDrawing' = TRUE
              /\ start' = s
              /\ currentPenPoints' = IF tool = "pen" THEN <<s>> ELSE currentPenPoints
              /\ lastDown' = [lastDown EXCEPT !.branch = "draw"]
              /\ UNCHANGED <<tool, isPanning, isDragging, zoom, pan, shapes,
                             selectedShapeIds, panStart, dragOffset,
                             hasCtx, showGrid, showAxes, pendingFiles, reads>>

draw(e) ==
    IF isPanning
    THEN LET newPan == Pt(Sub(R(e.clientX), panStart.x), Sub(R(e.clientY), panStart.y)) IN
         /\ pan' = newPan
         /\ UNCHANGED <<tool, isDrawing, isPanning, isDragging, start, zoom, shapes,
                        selectedShapeIds, currentPenPoints, panStart, dragOffset,
                        hasCtx, showGrid, showAxes, pendingFiles, reads, lastDown>>
    ELSE IF isDragging /\ tool = "select"
    THEN LET p == pos(e)
             deltaX == Sub(p.x, dragOffset.x)
             deltaY == Sub(p.y, dragOffset.y)
             moved == [i \in 1..Len(shapes) |->
                         IF shapes[i].id \in selectedShapeIds
                         THEN moveShapeBy(shapes[i], deltaX, deltaY)
                         ELSE shapes[i]]
         IN  /\ shapes' = moved
             /\ UNCHANGED <<tool, isDrawing, isPanning, isDragging, start, zoom, pan,
                            selectedShapeIds, currentPenPoints, panStart, dragOffset,
                            hasCtx, showGrid, showAxes, pendingFiles, reads, lastDown>>
    ELSE IF ~isDrawing
    THEN /\ UNCHANGED <<tool, isDrawing, isPanning, isDragging, start, zoom, pan,
                        shapes, selectedShapeIds, currentPenPoints, panStart,
                        dragOffset, hasCtx, showGrid, showAxes, pendingFiles, reads, lastDown>>
    ELSE IF ~hasCtx
    THEN /\ UNCHANGED <<tool, isDrawing, isPanning, isDragging, start, zoom, pan,
                        shapes, selectedShapeIds, currentPenPoints, panStart,
                        dragOffset, hasCtx, showGrid, showAxes, pendingFiles, reads, lastDown>>
    ELSE LET p == pos(e)
             curr == snapPoint(p)
         IN  IF tool = "pen"
             THEN /\ currentPenPoints' = Append(currentPenPoints, curr)
                  /\ UNCHANGED <<tool, isDrawing, isPanning, isDragging, start, zoom,
                                 pan, shapes, selectedShapeIds, panStart, dragOffset,
                                 hasCtx, showGrid, showAxes, pendingFiles, reads, lastDown>>
             ELSE /\ UNCHANGED <<tool, isDrawing, isPanning, isDragging, start, zoom,
                                 pan, shapes, selectedShapeIds, currentPenPoints,
                                 panStart, dragOffset, hasCtx, showGrid, showAxes, pendingFiles, reads, lastDown>>

\* Variant of newShapeOf that takes the final point for the extent.
newShapeFromCorner(t, id, s, curr) ==
    CASE t = "rect" ->
           [id |-> id, type |-> "rect", x |-> s.x, y |-> s.y,
            w |-> curr.x, h |-> curr.y]
      [] t = "circle" ->
           [id |-> id, type |-> "circle", cx |-> s.x, cy |-> s.y,
            r |-> Hypot(curr.x, curr.y)]
      [] t = "line" ->
           [id |-> id, type |-> "line", x1 |-> s.x, y1 |-> s.y,
            x2 |-> Sub(curr.x, s.x), y2 |-> Sub(curr.y, s.y)]

\* The shape endDraw builds for a shape tool from start and the final point.
newShapeOf(t, id, s, curr) ==
    CASE t = "rect" ->
           [id |-> id, type |-> "rect", x |-> s.x, y |-> s.y,
            w |-> Sub(curr.x, s.x), h |-> Sub(curr.y, s.y)]
      [] t = "circle" ->
           [id |-> id, type |-> "circle", cx |-> s.x, cy |-> s.y,
            r |-> Hypot(Sub(curr.x, s.x), Sub(curr.y, s.y))]
      [] t = "line" ->
           [id |-> id, type |-> "line", x1 |-> s.x, y1 |-> s.y,
            x2 |-> curr.x, y2 |-> curr.y]

\* Variant of penCommits that accepts a one-point buffer.
penCommitsAny(t, points) == t = "pen" /\ Len(points) > 0

\* tool === "pen" && currentPenPoints.length > 1
penCommits(t, points) == t = "pen" /\ Len(points) > 1

endDraw(e, id) ==
    IF isPanning
    THEN /\ isPanning' = FALSE
         /\ UNCHANGED <<tool, isDrawing, isDragging, start, zoom, pan, shapes,
                        selectedShapeIds, currentPenPoints, panStart, dragOffset,
                        hasCtx, showGrid, showAxes, pendingFiles, reads, lastDown>>
    ELSE IF isDragging
    THEN /\ isDragging' = FALSE
         /\ UNCHANGED <<tool, isDrawing, isPanning, start, zoom, pan, shapes,
                        selectedShapeIds, currentPenPoints, panStart, dragOffset,
                        hasCtx, showGrid, showAxes, pendingFiles, reads, lastDown>>
    ELSE IF ~isDrawing
    THEN /\ UNCHANGED <<tool, isDrawing, isPanning, isDragging, start, zoom, pan,
                        shapes, selectedShapeIds, currentPenPoints, panStart,
                        dragOffset, hasCtx, showGrid, showAxes, pendingFiles, reads, lastDown>>
    ELSE IF ~hasCtx
    THEN /\ isDrawing' = FALSE
         /\ UNCHANGED <<tool, isPanning, isDragging, start, zoom, pan, shapes,
                        selectedShapeIds, currentPenPoints, panStart, dragOffset,
                        hasCtx, showGrid, showAxes, pendingFiles, reads, lastDown>>
    ELSE IF penCommits(tool, currentPenPoints)
    THEN /\ isDrawing' = FALSE
         /\ shapes' = Append(shapes, [id |-> id, type |-> "pen", points |-> currentPenPoints])
         /\ currentPenPoints' = <<>>
         /\ UNCHANGED <<tool, isPanning, isDragging, start, zoom, pan,
                        selectedShapeIds, panStart, dragOffset, hasCtx, showGrid, showAxes, pendingFiles, reads,
                        lastDown>>
    ELSE IF tool # "pen" /\ tool # "select"
    THEN LET p == pos(e)
             curr == snapPoint(p)
         IN  /\ tool = "circle" => HypotExact(Sub(curr.x, start.x), Sub(curr.y, start.y))
             /\ isDrawing' = FALSE
             /\ shapes' = Append(shapes, newShapeOf(tool, id, start, curr))
             /\ UNCHANGED <<tool, isPanning, isDragging, start, zoom, pan,
                            selectedShapeIds, currentPenPoints, panStart, dragOffset,
                            hasCtx, showGrid, showAxes, pendingFiles, reads, lastDown>>
    ELSE /\ isDrawing' = FALSE
         /\ UNCHANGED <<tool, isPanning, isDragging, start, zoom, pan, shapes,
                        selectedShapeIds, currentPenPoints, panStart, dragOffset,
                        hasCtx, showGrid, showAxes, pendingFiles, reads, lastDown>>

(***************************************************************************)
(* Keyboard and toolbar.                                                   *)
(***************************************************************************)
\* Variant of filterUnselected with the predicate inverted.
filterSelected(prev) == SelectSeq(prev, LAMBDA s : s.id \in selectedShapeIds)

\* prev.filter(s => !selectedShapeIds.has(s.id))
filterUnselected(prev) == SelectSeq(prev, LAMBDA s : s.id \notin selectedShapeIds)

\* Variant of deleteSelected that keeps the selection.
deleteKeepingSelection ==
    /\ shapes' = filterUnselected(shapes)
    /\ selectedShapeIds' = selectedShapeIds

\* setShapes(prev => prev.filter(...)); setSelectedShapeIds(new Set())
deleteSelected ==
    /\ shapes' = filterUnselected(shapes)
    /\ selectedShapeIds' = {}

handleKeyDown ==
    IF selectedShapeIds # {}
    THEN /\ deleteSelected
         /\ UNCHANGED <<tool, isDrawing, isPanning, isDragging, start, zoom, pan,
                        currentPenPoints, panStart, dragOffset, hasCtx, showGrid, showAxes, pendingFiles, reads,
                        lastDown>>
    ELSE /\ UNCHANGED <<tool, isDrawing, isPanning, isDragging, start, zoom, pan,
                        shapes, selectedShapeIds, currentPenPoints, panStart,
                        dragOffset, hasCtx, showGrid, showAxes, pendingFiles, reads, lastDown>>

onDelete ==
    /\ deleteSelected
    /\ UNCHANGED <<tool, isDrawing, isPanning, isDragging, start, zoom, pan,
                   currentPenPoints, panStart, dragOffset, hasCtx, showGrid, showAxes, pendingFiles, reads, lastDown>>

\* Variant of onSelect that keeps the selection.
onSelectKeeping(t) ==
    /\ tool' = t
    /\ UNCHANGED <<isDrawing, isPanning, isDragging, start, zoom, pan, shapes,
                   selectedShapeIds, currentPenPoints, panStart, dragOffset,
                   hasCtx, showGrid, showAxes, pendingFiles, reads, lastDown>>

onSelect(t) ==
    /\ tool' = t
    /\ selectedShapeIds' = IF t # "select" THEN {} ELSE selectedShapeIds
    /\ UNCHANGED <<isDrawing, isPanning, isDragging, start, zoom, pan, shapes,
                   currentPenPoints, panStart, dragOffset, hasCtx, showGrid, showAxes, pendingFiles, reads,
                   lastDown>>

(***************************************************************************)
(* SVG import.  A document is the sequence of its selected elements; an    *)
(* element is [tag, attrs], attrs a function from the names of its present *)
(* attributes to their text.  The text of a scalar attribute is one token, *)
(* of a points attribute a sequence of tokens (split on blanks and commas),*)
(* of a path's d a sequence of [cmd, args] segments.  A token is           *)
(* [num, val]: num says whether parseFloat reads a number from it.         *)
(***************************************************************************)
NaN == <<0, 0>>

Tok(n) == [num |-> TRUE, val |-> R(n)]

parseFloat(tok) == IF tok.num THEN tok.val ELSE NaN

\* Variant of attrOr0 that reads a missing attribute as 1.
attrOr1(el, name) ==
    IF name \in DOMAIN el.attrs THEN parseFloat(el.attrs[name]) ELSE R(1)

\* parseFloat(el.getAttribute(name) || "0")
attrOr0(el, name) ==
    IF name \in DOMAIN el.attrs THEN parseFloat(el.attrs[name]) ELSE R(0)

parsePoints(tokens) ==
    [k \in 1..(Len(tokens) \div 2) |->
        Pt(parseFloat(tokens[2 * k - 1]), parseFloat(tokens[2 * k]))]

\* values: the non-blank texts between the command letters, in order.
pathValues(d) ==
    LET args == [k \in 1..Len(d) |-> d[k].args]
    IN  SelectSeq(args, LAMBDA a : a # <<>>)

RECURSIVE parsePathFrom(_, _, _, _)
parsePathFrom(d, values, i, current) ==
    IF i > Len(d) THEN <<>>
    ELSE LET cmd == d[i].cmd
             toks == IF i <= Len(values) THEN values[i] ELSE <<>>
             nums == [k \in 1..Len(toks) |-> parseFloat(toks[k])]
         IN  IF cmd \in {"M", "m", "L", "l"} /\ Len(nums) >= 2
             THEN LET next == IF cmd \in {"m", "l"}
                              THEN Pt(Add(current.x, nums[1]), Add(current.y, nums[2]))
                              ELSE Pt(nums[1], nums[2])
                  IN  <<next>> \o parsePathFrom(d, values, i + 1, next)
             ELSE parsePathFrom(d, values, i + 1, current)

parsePath(d) == parsePathFrom(d, pathValues(d), 1, Pt(R(0), R(0)))

\* Variant of tooFewPoints that rejects the empty sequence only.
noPoints(points) == Len(points) < 1

\* points.length < 2, pathPoints.length < 2
tooFewPoints(points) == Len(points) < 2

\* The shape an element converts to, as a sequence: <<>> stands for null.
parseSVGElement(el, id) ==
    CASE el.tag = "rect" ->
           <<[id |-> id, type |-> "rect", x |-> attrOr0(el, "x"), y |-> attrOr0(el, "y"),
              w |-> attrOr0(el, "width"), h |-> attrOr0(el, "height")]>>
      [] el.tag = "circle" ->
           <<[id |-> id, type |-> "circle", cx |-> attrOr0(el, "cx"),
              cy |-> attrOr0(el, "cy"), r |-> attrOr0(el, "r")]>>
      [] el.tag = "ellipse" ->
           <<[id |-> id, type |-> "circle", cx |-> attrOr0(el, "cx"),
              cy |-> attrOr0(el, "cy"),
              r |-> Div(Add(attrOr0(el, "rx"), attrOr0(el, "ry")), R(2))]>>
      [] el.tag = "line" ->
           <<[id |-> id, type |-> "line", x1 |-> attrOr0(el, "x1"), y1 |-> attrOr0(el, "y1"),
              x2 |-> attrOr0(el, "x2"), y2 |-> attrOr0(el, "y2")]>>
      [] el.tag \in {"polyline", "polygon"} ->
           IF "points" \notin DOMAIN el.attrs \/ el.attrs["points"] = <<>> THEN <<>>
           ELSE LET points == parsePoints(el.attrs["points"])
                IN  IF tooFewPoints(points) THEN <<>>
                    ELSE <<[id |-> id, type |-> "pen", points |-> points]>>
      [] el.tag = "path" ->
           IF "d" \notin DOMAIN el.attrs \/ el.attrs["d"] = <<>> THEN <<>>
           ELSE LET pathPoints == parsePath(el.attrs["d"])
                IN  IF tooFewPoints(pathPoints) THEN <<>>
                    ELSE <<[id |-> id, type |-> "pen", points |-> pathPoints]>>
      [] OTHER -> <<>>

RECURSIVE importedShapes(_, _, _)
importedShapes(doc, ids, i) ==
    IF i > Len(doc) THEN <<>>
    ELSE parseSVGElement(doc[i], ids[i]) \o importedShapes(doc, ids, i + 1)

\* Documents the file input delivers.
RectDoc ==
    <<[tag |-> "rect",
       attrs |-> [x |-> Tok(0), y |-> Tok(0), width |-> Tok(24), height |-> Tok(24)]]>>

MixedDoc ==
    <<[tag |-> "path",
       attrs |-> [d |-> <<[cmd |-> "M", args |-> <<Tok(0), Tok(0)>>],
                          [cmd |-> "L", args |-> <<Tok(24), Tok(0)>>],
                          [cmd |-> "Z", args |-> <<>>]>>]],
      [tag |-> "ellipse",
       attrs |-> [cx |-> Tok(24), cy |-> Tok(8), rx |-> Tok(8), ry |-> Tok(16)]]>>

ImportDocs == {MixedDoc}

\* A polyline and a path that give one point each, a polygon without a points
\* attribute, and a rectangle.
SparseDoc ==
    <<[tag |-> "polyline", attrs |-> [points |-> <<Tok(8), Tok(8), Tok(16)>>]],
      [tag |-> "polygon", attrs |-> [fill |-> <<>>]],
      [tag |-> "path", attrs |-> [d |-> <<[cmd |-> "M", args |-> <<Tok(8), Tok(8)>>]>>]],
      [tag |-> "rect",
       attrs |-> [x |-> Tok(8), y |-> Tok(8), width |-> Tok(16), height |-> Tok(16)]]>>

\* A circle with a negative r attribute.
NegativeRadiusDoc ==
    <<[tag |-> "circle", attrs |-> [cx |-> Tok(24), cy |-> Tok(8), r |-> Tok(-12)]]>>

\* <polyline points="8,8"/> and <path d="M 5,5 Z"/>: no shape comes out of
\* this document.
NoShapeDoc ==
    <<[tag |-> "polyline", attrs |-> [points |-> <<Tok(8), Tok(8)>>]],
      [tag |-> "path",
       attrs |-> [d |-> <<[cmd |-> "M", args |-> <<Tok(5), Tok(5)>>],
                          [cmd |-> "Z", args |-> <<>>]>>]]>>

AllDocs == ImportDocs \cup {SparseDoc, NegativeRadiusDoc, NoShapeDoc}

\* A text parseFloat reads no number from.
Bad == [num |-> FALSE, val |-> R(0)]

\* <rect x="10" y="20" width="30" height="40"/>
ExampleRectDoc ==
    <<[tag |-> "rect",
       attrs |-> [x |-> Tok(10), y |-> Tok(20), width |-> Tok(30), height |-> Tok(40)]]>>

\* A rect with a width only, a circle with a cx only, a circle without
\* attributes.
PartialDoc ==
    <<[tag |-> "rect", attrs |-> [width |-> Tok(30)]],
      [tag |-> "circle", attrs |-> [cx |-> Tok(8)]],
      [tag |-> "circle", attrs |-> [fill |-> <<>>]]>>

\* <path d="M0,0 L10,10 L20,0 Z"/>
ExamplePathDoc ==
    <<[tag |-> "path",
       attrs |-> [d |-> <<[cmd |-> "M", args |-> <<Tok(0), Tok(0)>>],
                          [cmd |-> "L", args |-> <<Tok(10), Tok(10)>>],
                          [cmd |-> "L", args |-> <<Tok(20), Tok(0)>>],
                          [cmd |-> "Z", args |-> <<>>]>>]]>>

\* <path d="m 8,8 l 8,0 C 1,2 3,4 5,6 L 0,0"/> and <path d="M 5,5 Z"/>
CurvePathDoc ==
    <<[tag |-> "path",
       attrs |-> [d |-> <<[cmd |-> "m", args |-> <<Tok(8), Tok(8)>>],
                          [cmd |-> "l", args |-> <<Tok(8), Tok(0)>>],
                          [cmd |-> "C", args |-> <<Tok(1), Tok(2), Tok(3), Tok(4),
                                                  Tok(5), Tok(6)>>],
                          [cmd |-> "L", args |-> <<Tok(0), Tok(0)>>]>>]],
      [tag |-> "path",
       attrs |-> [d |-> <<[cmd |-> "M", args |-> <<Tok(5), Tok(5)>>],
                          [cmd |-> "Z", args |-> <<>>]>>]]>>

\* <path d="M 0,0 L 24,0 Z M 8,8 L 16,16"/>
MidClosePathDoc ==
    <<[tag |-> "path",
       attrs |-> [d |-> <<[cmd |-> "M", args |-> <<Tok(0), Tok(0)>>],
                          [cmd |-> "L", args |-> <<Tok(24), Tok(0)>>],
                          [cmd |-> "Z", args |-> <<>>],
                          [cmd |-> "M", args |-> <<Tok(8), Tok(8)>>],
                          [cmd |-> "L", args |-> <<Tok(16), Tok(16)>>]>>]]>>

\* <line x1="0" y1="0" x2="8" y2="8"/>, <rect x="abc" y="0" width="8"
\* height="8"/>, <polyline points="0,0 abc,8 16,16"/>,
\* <line x1="8" y1="8" x2="16" y2="16"/>
MalformedDoc ==
    <<[tag |-> "line",
       attrs |-> [x1 |-> Tok(0), y1 |-> Tok(0), x2 |-> Tok(8), y2 |-> Tok(8)]],
      [tag |-> "rect",
       attrs |-> [x |-> Bad, y |-> Tok(0), width |-> Tok(8), height |-> Tok(8)]],
      [tag |-> "polyline",
       attrs |-> [points |-> <<Tok(0), Tok(0), Bad, Tok(8), Tok(16), Tok(16)>>]],
      [tag |-> "line",
       attrs |-> [x1 |-> Tok(8), y1 |-> Tok(8), x2 |-> Tok(16), y2 |-> Tok(16)]]>>

SampleDocs ==
    {RectDoc, ExampleRectDoc, PartialDoc, MixedDoc, SparseDoc, ExamplePathDoc,
     CurvePathDoc, MidClosePathDoc, MalformedDoc}

\* The file was chosen: file.text() is now in flight.
handleImportSVG(doc) ==
    /\ pendingFiles' = Append(pendingFiles, doc)
    /\ UNCHANGED <<tool, isDrawing, isPanning, isDragging, start, zoom, pan, shapes,
                   selectedShapeIds, currentPenPoints, panStart, dragOffset, hasCtx, showGrid, showAxes,
                   lastDown>>

\* Variant of importResolved that puts the imported shapes in front.
importResolvedInFront(k, ids) ==
    LET doc == pendingFiles[k]
        imported == importedShapes(doc, ids, 1)
    IN  /\ shapes' = IF Len(imported) > 0 THEN imported \o shapes ELSE shapes
        /\ pendingFiles' = [i \in 1..(Len(pendingFiles) - 1) |->
                               IF i < k THEN pendingFiles[i] ELSE pendingFiles[i + 1]]
        /\ UNCHANGED <<tool, isDrawing, isPanning, isDragging, start, zoom, pan,
                       selectedShapeIds, currentPenPoints, panStart, dragOffset, hasCtx, showGrid, showAxes,
                       lastDown>>

\* Variant of importResolved that appends to the scene as it was when the
\* file was chosen.
importResolvedStale(k, ids) ==
    LET doc == pendingFiles[k]
        imported == importedShapes(doc, ids, 1)
        prev == IF k <= Len(reads.started) THEN reads.started[k] ELSE shapes
    IN  /\ shapes' = IF Len(imported) > 0 THEN prev \o imported ELSE shapes
        /\ pendingFiles' = [i \in 1..(Len(pendingFiles) - 1) |->
                               IF i < k THEN pendingFiles[i] ELSE pendingFiles[i + 1]]
        /\ UNCHANGED <<tool, isDrawing, isPanning, isDragging, start, zoom, pan,
                       selectedShapeIds, currentPenPoints, panStart, dragOffset, hasCtx, showGrid, showAxes,
                       lastDown>>

\* file.text() of the k-th read resolved: the rest of handleImportSVG runs.
importResolved(k, ids) ==
    LET doc == pendingFiles[k]
        imported == importedShapes(doc, ids, 1)
    IN  /\ shapes' = IF Len(imported) > 0 THEN shapes \o imported ELSE shapes
        /\ pendingFiles' = [i \in 1..(Len(pendingFiles) - 1) |->
                               IF i < k THEN pendingFiles[i] ELSE pendingFiles[i + 1]]
        /\ UNCHANGED <<tool, isDrawing, isPanning, isDragging, start, zoom, pan,
                       selectedShapeIds, currentPenPoints, panStart, dragOffset, hasCtx, showGrid, showAxes,
                       lastDown>>

(***************************************************************************)
(* Specification.                                                          *)
(***************************************************************************)
Init ==
    /\ tool = "pen"
    /\ isDrawing = FALSE
    /\ isPanning = FALSE
    /\ isDragging = FALSE
    /\ start = Pt(R(0), R(0))
    /\ zoom = R(1)
    /\ pan = Pt(R(0), R(0))
    /\ shapes = <<>>
    /\ selectedShapeIds = {}
    /\ currentPenPoints = <<>>
    /\ panStart = Pt(R(0), R(0))
    /\ dragOffset = Pt(R(0), R(0))
    /\ hasCtx = TRUE
    /\ showGrid = TRUE
    /\ showAxes = TRUE
    /\ pendingFiles = <<>>
    /\ reads = NoReads
    /\ steps = 0
    /\ lastDown = [branch |-> "none", client |-> <<0, 0>>, pan |-> Pt(R(0), R(0))]

\* One more event is handled.
Tick == steps < MaxSteps /\ steps' = steps + 1

PointerDown == Tick /\ \E e \in MouseEvents : startDraw(e)

PointerMove == Tick /\ \E e \in MoveEvents : draw(e)

PointerUp == Tick /\ \E e \in MoveEvents, id \in Ids : endDraw(e, id)

KeyDelete == Tick /\ handleKeyDown

ToolbarDelete == Tick /\ onDelete

ToolChange == Tick /\ \E t \in Tools : onSelect(t)

\* Zoom steps are explored inside the zoom window.
ZoomIn == Tick /\ handleZoomIn /\ InZoomWindow(zoom')

ZoomOut == Tick /\ handleZoomOut /\ InZoomWindow(zoom')

ZoomReset == Tick /\ handleZoomReset

ImportChosen ==
    /\ Tick
    /\ \E doc \in ImportDocs : handleImportSVG(doc)
    /\ UNCHANGED reads

ImportRead ==
    /\ Tick
    /\ \E k \in 1..Len(pendingFiles) :
           \E ids \in [1..Len(pendingFiles[k]) -> Ids] : importResolved(k, ids)
    /\ UNCHANGED reads

Next ==
    \/ PointerDown
    \/ PointerMove
    \/ PointerUp
    \/ KeyDelete
    \/ ToolbarDelete
    \/ ToolChange
    \/ ZoomIn
    \/ ZoomOut
    \/ ZoomReset
    \/ ImportChosen
    \/ ImportRead

Spec == Init /\ [][Next]_vars

(***************************************************************************)
(* Every handler of the page: the events of Spec, the wheel, the grid and  *)
(* axes toggles, and imports of every document.  A behaviour starts in the *)
(* initial state or in the state Spec reaches by importing MixedDoc with   *)
(* ids 1 and 2 and choosing the select tool.                               *)
(***************************************************************************)
MaxEvents == 3   \* events handled in a behaviour of SpecAll

SceneAfterImport == importedShapes(MixedDoc, <<1, 2>>, 1)

InitAll ==
    \/ Init
    \/ /\ tool = "select"
       /\ isDrawing = FALSE
       /\ isPanning = FALSE
       /\ isDragging = FALSE
       /\ start = Pt(R(0), R(0))
       /\ zoom = R(1)
       /\ pan = Pt(R(0), R(0))
       /\ shapes = SceneAfterImport
       /\ selectedShapeIds = {}
       /\ currentPenPoints = <<>>
       /\ panStart = Pt(R(0), R(0))
       /\ dragOffset = Pt(R(0), R(0))
       /\ hasCtx = TRUE
       /\ showGrid = TRUE
       /\ showAxes = TRUE
       /\ pendingFiles = <<>>
       /\ reads = NoReads
       /\ steps = 0
       /\ lastDown = [branch |-> "none", client |-> <<0, 0>>, pan |-> Pt(R(0), R(0))]

\* The wheel is explored on the initial viewport.
WheelAtStart ==
    /\ Tick
    /\ zoom = InitialZoom
    /\ pan = Pt(R(0), R(0))
    /\ \E e \in WheelEvents : handleWheel(e)

ToggleGrid == Tick /\ toggleGrid

ToggleAxes == Tick /\ toggleAxes

ImportChosenAny ==
    /\ Tick
    /\ \E doc \in AllDocs : handleImportSVG(doc)
    /\ UNCHANGED reads

\* Fewer than MaxEvents events have been handled.
Within == steps < MaxEvents

NextAll ==
    \/ Within /\ PointerDown
    \/ Within /\ PointerMove
    \/ Within /\ PointerUp
    \/ Within /\ KeyDelete
    \/ Within /\ ToolbarDelete
    \/ Within /\ ToolChange
    \/ Within /\ ZoomIn
    \/ Within /\ ZoomOut
    \/ Within /\ ZoomReset
    \/ Within /\ ImportChosenAny
    \/ Within /\ ImportRead
    \/ Within /\ WheelAtStart
    \/ Within /\ ToggleGrid
    \/ Within /\ ToggleAxes

SpecAll == InitAll /\ [][NextAll]_vars

(***************************************************************************)
(* The zoom controls alone, from the initial state and without a bound on  *)
(* the number of events: the three toolbar buttons and the wheel.  The     *)
(* new zoom does not depend on the cursor, so the wheel turns over the     *)
(* canvas origin, which keeps the pan at (0, 0).                           *)
(***************************************************************************)
OriginWheelEvents ==
    {e \in WheelEvents : e.clientX = CanvasLeft /\ e.clientY = CanvasTop}

ZoomInPressed == handleZoomIn /\ UNCHANGED steps

ZoomOutPressed == handleZoomOut /\ UNCHANGED steps

ZoomResetPressed == handleZoomReset /\ UNCHANGED steps

WheelTurned == UNCHANGED steps /\ \E e \in OriginWheelEvents : handleWheel(e)

NextZoom ==
    \/ ZoomInPressed
    \/ ZoomOutPressed
    \/ ZoomResetPressed
    \/ WheelTurned

SpecZoom == Init /\ [][NextZoom]_vars

(***************************************************************************)
(* The wheel handler alone, applied to viewports drawn from bounded sets:  *)
(* zooms at both clamps, next to them, at halfway points of the rounding   *)
(* and in between, and pans on and off the origin.                         *)
(***************************************************************************)
MaxWheels == 2   \* wheel events in a row

ZoomSamples ==
    {<<1, 10>>, <<11, 100>>, <<3, 20>>, <<1, 2>>, R(1), <<6, 5>>, <<23, 5>>, R(5)}

PanSamples == {Pt(R(0), R(0)), Pt(R(10), R(-7)), Pt(R(-30), R(20))}

InitWheel ==
    /\ tool = "pen"
    /\ isDrawing = FALSE
    /\ isPanning = FALSE
    /\ isDragging = FALSE
    /\ start = Pt(R(0), R(0))
    /\ zoom \in ZoomSamples
    /\ pan \in PanSamples
    /\ shapes = <<>>
    /\ selectedShapeIds = {}
    /\ currentPenPoints = <<>>
    /\ panStart = Pt(R(0), R(0))
    /\ dragOffset = Pt(R(0), R(0))
    /\ hasCtx = TRUE
    /\ showGrid = TRUE
    /\ showAxes = TRUE
    /\ pendingFiles = <<>>
    /\ reads = NoReads
    /\ steps = 0
    /\ lastDown = [branch |-> "none", client |-> <<0, 0>>, pan |-> Pt(R(0), R(0))]

Wheel ==
    /\ steps < MaxWheels
    /\ steps' = steps + 1
    /\ \E e \in WheelEvents : handleWheel(e)

SpecWheel == InitWheel /\ [][Wheel]_vars

(***************************************************************************)
(* The page with no 2D context: getCtx() returns undefined in every        *)
(* handler.                                                                *)
(***************************************************************************)
InitNoCtx ==
    /\ tool = "pen"
    /\ isDrawing = FALSE
    /\ isPanning = FALSE
    /\ isDragging = FALSE
    /\ start = Pt(R(0), R(0))
    /\ zoom = R(1)
    /\ pan = Pt(R(0), R(0))
    /\ shapes = <<>>
    /\ selectedShapeIds = {}
    /\ currentPenPoints = <<>>
    /\ panStart = Pt(R(0), R(0))
    /\ dragOffset = Pt(R(0), R(0))
    /\ hasCtx = FALSE
    /\ showGrid = TRUE
    /\ showAxes = TRUE
    /\ pendingFiles = <<>>
    /\ reads = NoReads
    /\ steps = 0
    /\ lastDown = [branch |-> "none", client |-> <<0, 0>>, pan |-> Pt(R(0), R(0))]

SpecNoCtx == InitNoCtx /\ [][Next]_vars

(***************************************************************************)
(* Gestures and tool changes, from the initial state and from the state    *)
(* after a pen gesture of one point, at client (104,0), was discarded and  *)
(* the rect tool chosen: the discarded point (20,0) is still in the pen    *)
(* buffer.                                                                 *)
(***************************************************************************)
AfterDiscardedPen ==
    /\ tool = "rect"
    /\ isDrawing = FALSE
    /\ isPanning = FALSE
    /\ isDragging = FALSE
    /\ start = Pt(R(20), R(0))
    /\ zoom = R(1)
    /\ pan = Pt(R(0), R(0))
    /\ shapes = <<>>
    /\ selectedShapeIds = {}
    /\ currentPenPoints = <<Pt(R(20), R(0))>>
    /\ panStart = Pt(R(0), R(0))
    /\ dragOffset = Pt(R(0), R(0))
    /\ hasCtx = TRUE
    /\ showGrid = TRUE
    /\ showAxes = TRUE
    /\ pendingFiles = <<>>
    /\ reads = NoReads
    /\ steps = 0
    /\ lastDown = [branch |-> "draw", client |-> <<0, 0>>, pan |-> Pt(R(0), R(0))]

InitPen == Init \/ AfterDiscardedPen

NextPen ==
    \/ PointerDown
    \/ PointerMove
    \/ PointerUp
    \/ ToolChange

SpecPen == InitPen /\ [][NextPen]_vars

(***************************************************************************)
(* A read of a file overlapping with gestures and deletes: the handlers    *)
(* that write the scene run between the moment a file is chosen and the    *)
(* moment its text has been read.  Starts from the empty scene and from a  *)
(* scene of two shapes under the select tool.                              *)
(***************************************************************************)
ReadStarted ==
    /\ Tick
    /\ handleImportSVG(RectDoc)
    /\ reads' = [reads EXCEPT !.started = Append(@, shapes)]

ReadDone ==
    /\ Tick
    /\ \E k \in 1..Len(pendingFiles) :
          /\ \E ids \in [1..Len(pendingFiles[k]) -> Ids] : importResolved(k, ids)
          /\ reads' = [started |-> [i \in 1..(Len(reads.started) - 1) |->
                                      IF i < k THEN reads.started[i]
                                      ELSE reads.started[i + 1]],
                       done |-> <<[atStart |-> reads.started[k], atEnd |-> shapes,
                                   doc |-> pendingFiles[k]]>>]

NextRace ==
    \/ PointerDown
    \/ PointerMove
    \/ PointerUp
    \/ KeyDelete
    \/ ToolbarDelete
    \/ ToolChange
    \/ ReadStarted
    \/ ReadDone

SpecRace == InitAll /\ [][NextRace]_vars

(***************************************************************************)
(* The importer alone, applied to documents drawn from a bounded set: a    *)
(* file is chosen, its text is read, its elements are converted.  Reads    *)
(* may overlap and resolve in either order.                                *)
(***************************************************************************)
MaxFileEvents == 3   \* files chosen and reads resolved in a behaviour

FileChosen ==
    /\ steps < MaxFileEvents
    /\ steps' = steps + 1
    /\ \E doc \in SampleDocs : handleImportSVG(doc)
    /\ UNCHANGED reads

FileRead ==
    /\ steps < MaxFileEvents
    /\ steps' = steps + 1
    /\ \E k \in 1..Len(pendingFiles) :
          \E ids \in [1..Len(pendingFiles[k]) -> Ids] : importResolved(k, ids)
    /\ UNCHANGED reads

NextImport == FileChosen \/ FileRead

SpecImport == Init /\ [][NextImport]_vars

(***************************************************************************)
(* moveShapeBy alone, applied to scenes of one shape drawn from a bounded  *)
(* set holding every variant, with deltas of either sign: the update of    *)
(* the drag branch of draw with the shape selected.                        *)
(***************************************************************************)
MaxMoves == 2   \* translations in a row

ShapeSamples ==
    {[id |-> 1, type |-> "pen",
      points |-> <<Pt(R(0), R(0)), Pt(R(20), R(0)), Pt(R(20), R(40))>>],
     [id |-> 1, type |-> "pen", points |-> <<Pt(<<-5, 2>>, R(7)), Pt(R(24), R(0))>>],
     [id |-> 1, type |-> "rect", x |-> R(0), y |-> R(0), w |-> R(40), h |-> R(20)],
     [id |-> 1, type |-> "rect", x |-> R(40), y |-> R(40), w |-> R(-40), h |-> R(-20)],
     [id |-> 1, type |-> "rect", x |-> R(20), y |-> R(20), w |-> R(0), h |-> R(0)],
     [id |-> 1, type |-> "circle", cx |-> R(24), cy |-> R(8), r |-> R(12)],
     [id |-> 1, type |-> "circle", cx |-> R(0), cy |-> R(0), r |-> R(0)],
     [id |-> 1, type |-> "line", x1 |-> R(0), y1 |-> R(0), x2 |-> R(20), y2 |-> R(20)],
     [id |-> 1, type |-> "line", x1 |-> R(-20), y1 |-> R(40), x2 |-> R(60), y2 |-> R(-20)]}

DeltaSamples == {R(-20), <<-1, 2>>, R(0), <<1, 2>>, R(20)}

InitShapes ==
    /\ tool = "select"
    /\ isDrawing = FALSE
    /\ isPanning = FALSE
    /\ isDragging = FALSE
    /\ start = Pt(R(0), R(0))
    /\ zoom = R(1)
    /\ pan = Pt(R(0), R(0))
    /\ \E shape \in ShapeSamples : shapes = <<shape>>
    /\ selectedShapeIds = {1}
    /\ currentPenPoints = <<>>
    /\ panStart = Pt(R(0), R(0))
    /\ dragOffset = Pt(R(0), R(0))
    /\ hasCtx = TRUE
    /\ showGrid = TRUE
    /\ showAxes = TRUE
    /\ pendingFiles = <<>>
    /\ reads = NoReads
    /\ steps = 0
    /\ lastDown = [branch |-> "none", client |-> <<0, 0>>, pan |-> Pt(R(0), R(0))]

\* prev.map(s => selectedShapeIds.has(s.id) ? moveShapeBy(s, deltaX, deltaY) : s)
movedBy(deltaX, deltaY) ==
    [i \in 1..Len(shapes) |->
        IF shapes[i].id \in selectedShapeIds
        THEN moveShapeBy(shapes[i], deltaX, deltaY)
        ELSE shapes[i]]

Translate ==
    /\ steps < MaxMoves
    /\ steps' = steps + 1
    /\ \E deltaX \in DeltaSamples, deltaY \in DeltaSamples :
          shapes' = movedBy(deltaX, deltaY)
    /\ UNCHANGED <<tool, isDrawing, isPanning, isDragging, start, zoom, pan,
                   selectedShapeIds, currentPenPoints, panStart, dragOffset,
                   hasCtx, showGrid, showAxes, pendingFiles, reads, lastDown>>

SpecShapes == InitShapes /\ [][Translate]_vars

(***************************************************************************)
(* snap alone, applied to both coordinates of raw points drawn from a      *)
(* bounded set: start holds the raw point, and a step replaces it by the   *)
(* snapped point, as startDraw does with the pointer position.             *)
(***************************************************************************)
MaxSnaps == 2   \* applications of snap in a row

SnapSamples ==
    {R(-30), <<-21, 2>>, R(-10), <<-19, 2>>, R(0), <<1, 3>>, <<999, 100>>, R(10),
     R(15), R(24), R(30)}

InitSnap ==
    /\ tool = "rect"
    /\ isDrawing = FALSE
    /\ isPanning = FALSE
    /\ isDragging = FALSE
    /\ \E x \in SnapSamples, y \in SnapSamples : start = Pt(x, y)
    /\ zoom = R(1)
    /\ pan = Pt(R(0), R(0))
    /\ shapes = <<>>
    /\ selectedShapeIds = {}
    /\ currentPenPoints = <<>>
    /\ panStart = Pt(R(0), R(0))
    /\ dragOffset = Pt(R(0), R(0))
    /\ hasCtx = TRUE
    /\ showGrid = TRUE
    /\ showAxes = TRUE
    /\ pendingFiles = <<>>
    /\ reads = NoReads
    /\ steps = 0
    /\ lastDown = [branch |-> "none", client |-> <<0, 0>>, pan |-> Pt(R(0), R(0))]

\* setStart({ x: snap(p.x), y: snap(p.y) })
SnapStart ==
    /\ steps < MaxSnaps
    /\ steps' = steps + 1
    /\ start' = Pt(snap(start.x), snap(start.y))
    /\ UNCHANGED <<tool, isDrawing, isPanning, isDragging, zoom, pan, shapes,
                   selectedShapeIds, currentPenPoints, panStart, dragOffset,
                   hasCtx, showGrid, showAxes, pendingFiles, reads, lastDown>>

SpecSnap == InitSnap /\ [][SnapStart]_vars

(***************************************************************************)
(* Properties.                                                             *)
(*                                                                         *)
(* The controller is in one of the states of the spec's machine when       *)
(* exactly the corresponding flag is set.                                  *)
(***************************************************************************)
Idle == ~isPanning /\ ~isDrawing /\ ~isDragging

Drawing == isDrawing /\ ~isPanning /\ ~isDragging

Dragging == isDragging /\ ~isPanning /\ ~isDrawing

Panning == isPanning

PanModifier(e) == e.button = 1 \/ (e.button = 0 /\ e.ctrlKey)

SceneIds == {shapes[i].id : i \in 1..Len(shapes)}

LastShape == shapes[Len(shapes)]

\* The subsequence of seq whose ids are not in ids.
RECURSIVE Remaining(_, _)
Remaining(seq, ids) ==
    IF seq = <<>> THEN <<>>
    ELSE IF Head(seq).id \in ids THEN Remaining(Tail(seq), ids)
    ELSE <<Head(seq)>> \o Remaining(Tail(seq), ids)

\* C1: a delete (Delete key or toolbar request) with a non-empty selection
\* removes exactly the shapes whose ids are selected, keeps every other shape
\* with its id, geometry and relative order, and empties the selection; with
\* an empty selection it changes neither the scene nor the selection.
C1_DeleteRemovesExactlySelected ==
    [][(KeyDelete \/ ToolbarDelete) =>
          /\ shapes' = Remaining(shapes, selectedShapeIds)
          /\ selectedShapeIds' = {}
          /\ selectedShapeIds = {} =>
                 shapes' = shapes /\ selectedShapeIds' = selectedShapeIds]_vars

\* The scene holds only the circle imported from the ellipse of MixedDoc: the
\* pen shape imported in front of it was selected and deleted, the circle was
\* kept, and the selection is empty.
C1_Witness ==
    /\ Len(shapes) = 1
    /\ shapes[1].type = "circle"
    /\ shapes[1].cx = R(24) /\ shapes[1].cy = R(8) /\ shapes[1].r = R(12)
    /\ selectedShapeIds = {}

\* C2: in every reachable state the selected ids are ids of shapes in the scene.
C2_SelectionSubsetOfScene == selectedShapeIds \subseteq SceneIds

\* A shape is selected while another shape with a different id is not.
C2_Witness ==
    /\ selectedShapeIds # {}
    /\ SceneIds \ selectedShapeIds # {}

\* C3: a pen gesture that ends (pointer-up or pointer-leave in Drawing with the
\* pen tool) appends one Pen shape holding the buffered points if and only if
\* the buffer holds at least 2 points; otherwise the scene is unchanged.
C3_PenCommitsIffTwoPoints ==
    [][\A e \in MoveEvents, id \in Ids :
          (Drawing /\ tool = "pen" /\ ~isDrawing' /\ Tick /\ endDraw(e, id)) =>
              IF Len(currentPenPoints) >= 2
              THEN shapes' = Append(shapes, [id |-> id, type |-> "pen",
                                             points |-> currentPenPoints])
              ELSE shapes' = shapes]_vars

\* A pen gesture with a pointer-move has been committed: the scene ends with a
\* pen shape of at least 2 points, all of them grid points (the pen shape
\* imported from MixedDoc has a point off the grid), and the buffer is empty.
C3_Witness ==
    /\ tool = "pen"
    /\ ~isDrawing
    /\ shapes # <<>>
    /\ LastShape.type = "pen"
    /\ Len(LastShape.points) >= 2
    /\ \A i \in 1..Len(LastShape.points) :
           LastShape.points[i].x[2] = 1 /\ LastShape.points[i].x[1] % GRID_SIZE = 0
    /\ currentPenPoints = <<>>

OnGrid(v) == v[2] = 1 /\ v[1] % GRID_SIZE = 0

\* g is a multiple of the grid unit nearest to raw.
NearestGrid(g, raw) == OnGrid(g) /\ Le(Abs(Sub(g, raw)), R(GRID_SIZE \div 2))

\* shape is what tool t builds from start point s and final point f.
BuiltFrom(shape, t, s, f) ==
    CASE t = "rect" ->
           /\ shape.type = "rect"
           /\ shape.x = s.x /\ shape.y = s.y
           /\ Add(shape.x, shape.w) = f.x /\ Add(shape.y, shape.h) = f.y
      [] t = "circle" ->
           /\ shape.type = "circle"
           /\ shape.cx = s.x /\ shape.cy = s.y
           /\ Le(R(0), shape.r)
           /\ Sq(shape.r) = Add(Sq(Sub(f.x, s.x)), Sq(Sub(f.y, s.y)))
      [] t = "line" ->
           /\ shape.type = "line"
           /\ shape.x1 = s.x /\ shape.y1 = s.y
           /\ shape.x2 = f.x /\ shape.y2 = f.y

GridCandidates(raw) ==
    {R(GRID_SIZE * k) : k \in (Floor(Div(raw, R(GRID_SIZE))))..(Floor(Div(raw, R(GRID_SIZE))) + 1)}

\* C4: a Drawing gesture with tool rect, circle or line that ends by pointer-up
\* or pointer-leave appends exactly one shape of that kind at the end of the
\* scene, built from the snapped start point and the snapped final pointer
\* position, also when the two coincide.
C4_ShapeToolAlwaysCommits ==
    [][\A e \in MoveEvents, id \in Ids :
          (Drawing /\ tool \in {"rect", "circle", "line"} /\ ~isDrawing'
             /\ Tick /\ endDraw(e, id)) =>
              /\ Len(shapes') = Len(shapes) + 1
              /\ SubSeq(shapes', 1, Len(shapes)) = shapes
              /\ shapes'[Len(shapes')].id = id
              /\ OnGrid(start.x) /\ OnGrid(start.y)
              /\ \E fx \in GridCandidates(pos(e).x), fy \in GridCandidates(pos(e).y) :
                     /\ NearestGrid(fx, pos(e).x)
                     /\ NearestGrid(fy, pos(e).y)
                     /\ BuiltFrom(shapes'[Len(shapes')], tool, start, Pt(fx, fy))]_vars

\* A rect gesture whose two points coincide has committed a zero-area rect (no
\* imported document holds a rect).
C4_Witness ==
    /\ tool = "rect"
    /\ ~isDrawing
    /\ shapes # <<>>
    /\ LastShape.type = "rect"
    /\ LastShape.w = R(0)
    /\ LastShape.h = R(0)

\* C5: after a pointer-up or pointer-leave event the controller is Idle: none
\* of Panning, Drawing, Dragging is active.
C5_IdleAfterPointerUp == [][PointerUp => Idle']_vars

\* The indices of the shapes that pass the hit test at world point p.
HitIndices(p) == {i \in 1..Len(shapes) : isPointInShape(p, shapes[i], zoom)}

\* C6: with tool = select and no pan modifier, a pointer-down that hits a shape
\* S without shift makes the selection exactly {S.id} and sets the dragging
\* flag, the other mode flags staying as they were (from Idle the controller
\* is then in Dragging); with shift it toggles S.id in the selection, keeps
\* every other selected id and leaves the mode flags as they were (from Idle
\* the controller stays Idle).
C6_SelectClickSelectsOrToggles ==
    [][tool = "select" =>
         \A e \in MouseEvents :
            (~PanModifier(e) /\ Tick /\ startDraw(e) /\ HitIndices(pos(e)) # {}) =>
                \E k \in HitIndices(pos(e)) :
                    IF ~e.shiftKey
                    THEN /\ selectedShapeIds' = {shapes[k].id}
                         /\ isDragging'
                         /\ isDrawing' = isDrawing /\ isPanning' = isPanning
                         /\ Idle => Dragging'
                    ELSE /\ shapes[k].id \in selectedShapeIds' <=>
                                shapes[k].id \notin selectedShapeIds
                         /\ selectedShapeIds' \ {shapes[k].id} =
                                selectedShapeIds \ {shapes[k].id}
                         /\ <<isDrawing, isPanning, isDragging>>' =
                                <<isDrawing, isPanning, isDragging>>
                         /\ Idle => Idle']_vars

\* One shape was clicked and a second one then shift-clicked: the ids of both
\* are selected.
C6_Witness ==
    /\ tool = "select"
    /\ lastDown.branch = "toggle"
    /\ isDragging
    /\ Cardinality(selectedShapeIds) = 2
    /\ selectedShapeIds = SceneIds

\* C7: when a select-tool pointer-down hits several shapes, the shape acted on
\* is the one that comes last in the scene among those passing the hit test:
\* its id is the one selected or toggled, and the drag offset is taken from its
\* bounds.
C7_TopmostHitIsActedOn ==
    [][tool = "select" =>
         \A e \in MouseEvents :
            (~PanModifier(e) /\ Tick /\ startDraw(e) /\ HitIndices(pos(e)) # {}) =>
                \E k \in HitIndices(pos(e)) :
                    /\ \A j \in (k + 1)..Len(shapes) : j \notin HitIndices(pos(e))
                    /\ IF e.shiftKey
                       THEN selectedShapeIds' =
                                (selectedShapeIds \ {shapes[k].id})
                                    \cup ({shapes[k].id} \ selectedShapeIds)
                       ELSE /\ selectedShapeIds' = {shapes[k].id}
                            /\ getShapeBounds(shapes[k]) # NoBounds =>
                                   dragOffset' =
                                       Pt(Sub(pos(e).x, getShapeBounds(shapes[k]).x),
                                          Sub(pos(e).y, getShapeBounds(shapes[k]).y))]_vars

\* A click landed on a point where two shapes with different ids overlap: the
\* later one alone is selected and the drag offset is measured from its bounds.
C7_Witness ==
    /\ tool = "select"
    /\ lastDown.branch = "hit"
    /\ Len(shapes) = 2
    /\ shapes[1].id # shapes[2].id
    /\ selectedShapeIds = {shapes[2].id}
    /\ \E e \in MoveEvents :
          /\ HitIndices(pos(e)) = {1, 2}
          /\ dragOffset = Pt(Sub(pos(e).x, getShapeBounds(shapes[2]).x),
                             Sub(pos(e).y, getShapeBounds(shapes[2]).y))

\* C8 as stated: the selection is empty right after a tool change to a tool
\* other than select, after a delete, and after every select-tool pointer-down
\* that hits no shape, the controller then staying Idle.
C8_SelectionEmptyAfterAnyMiss ==
    [][/\ (\E t \in Tools \ {"select"} : Tick /\ onSelect(t)) => selectedShapeIds' = {}
       /\ (KeyDelete \/ ToolbarDelete) => selectedShapeIds' = {}
       /\ tool = "select" =>
            \A e \in MouseEvents :
               (Tick /\ startDraw(e) /\ HitIndices(pos(e)) = {}) =>
                   /\ selectedShapeIds' = {}
                   /\ Idle => Idle']_vars

\* C8: the selection is empty right after a tool change to a tool other than
\* select, after a delete, and after a select-tool pointer-down without the pan
\* modifier that hits no shape; that pointer-down leaves the mode flags as they
\* were, so from Idle the controller stays Idle.
C8_SelectionEmptyAfterClear ==
    [][/\ (\E t \in Tools \ {"select"} : Tick /\ onSelect(t)) => selectedShapeIds' = {}
       /\ (KeyDelete \/ ToolbarDelete) => selectedShapeIds' = {}
       /\ tool = "select" =>
            \A e \in MouseEvents :
               (~PanModifier(e) /\ Tick /\ startDraw(e) /\ HitIndices(pos(e)) = {}) =>
                   /\ selectedShapeIds' = {}
                   /\ <<isDrawing, isPanning, isDragging>>' =
                          <<isDrawing, isPanning, isDragging>>
                   /\ Idle => Idle']_vars

\* A click selected a shape (the dragging flag is still set) and a later
\* pointer-down on empty canvas emptied the selection; both shapes are there.
C8_Witness ==
    /\ tool = "select"
    /\ lastDown.branch = "miss"
    /\ isDragging
    /\ Len(shapes) = 2
    /\ selectedShapeIds = {}

\* b is a translated by (dx, dy): same id and kind, same extent, every
\* coordinate shifted.
Translated(a, b, dx, dy) ==
    /\ b.id = a.id
    /\ b.type = a.type
    /\ CASE a.type = "pen" ->
              /\ Len(b.points) = Len(a.points)
              /\ \A i \in 1..Len(a.points) :
                    /\ b.points[i].x = Add(a.points[i].x, dx)
                    /\ b.points[i].y = Add(a.points[i].y, dy)
         [] a.type = "rect" ->
              /\ b.x = Add(a.x, dx) /\ b.y = Add(a.y, dy)
              /\ b.w = a.w /\ b.h = a.h
         [] a.type = "circle" ->
              /\ b.cx = Add(a.cx, dx) /\ b.cy = Add(a.cy, dy)
              /\ b.r = a.r
         [] a.type = "line" ->
              /\ b.x1 = Add(a.x1, dx) /\ b.y1 = Add(a.y1, dy)
              /\ b.x2 = Add(a.x2, dx) /\ b.y2 = Add(a.y2, dy)

\* C9: a pointer-move handled as a drag (dragging flag set, not panning, tool =
\* select) replaces every selected shape, at its place in the sequence, by its
\* translation by one common delta, the pointer position minus the drag
\* offset, and leaves every unselected shape, the length and order of the
\* scene, the selection, the zoom and the pan unchanged.
C9_DragTranslatesSelection ==
    [][(isDragging /\ ~isPanning /\ tool = "select") =>
         \A e \in MoveEvents :
            (Tick /\ draw(e)) =>
                /\ Len(shapes') = Len(shapes)
                /\ \A i \in 1..Len(shapes) :
                      IF shapes[i].id \in selectedShapeIds
                      THEN Translated(shapes[i], shapes'[i],
                                      Sub(pos(e).x, dragOffset.x),
                                      Sub(pos(e).y, dragOffset.y))
                      ELSE shapes'[i] = shapes[i]
                /\ UNCHANGED <<selectedShapeIds, zoom, pan>>]_vars

\* The imported circle is selected and has been dragged away from where it was
\* imported, while the unselected pen shape in front of it is where it was.
C9_Witness ==
    /\ tool = "select"
    /\ isDragging /\ ~isPanning
    /\ Len(shapes) = 2
    /\ selectedShapeIds = {shapes[2].id}
    /\ shapes[1].id \notin selectedShapeIds
    /\ shapes[1].type = "pen"
    /\ shapes[1].points = <<Pt(R(0), R(0)), Pt(R(24), R(0))>>
    /\ shapes[2].type = "circle"
    /\ shapes[2].r = R(12)
    /\ shapes[2].cx # R(24) /\ shapes[2].cy # R(8)

WholeHundredths(z) == Rat(z[1] * 100, z[2])[2] = 1

\* C11: in every state reachable from zoom = 1 by zoom-in, zoom-out,
\* zoom-reset and wheel events, the zoom lies in [0.1, 5.0] and is a whole
\* number of hundredths.
C11_ZoomInRangeAndHundredths ==
    /\ Le(<<1, 10>>, zoom)
    /\ Le(zoom, R(5))
    /\ WholeHundredths(zoom)

\* The zoom has been driven up to the upper clamp.
C11_Witness == zoom = R(5) /\ pan = Pt(R(0), R(0)) /\ shapes = <<>>

\* C12: a wheel event keeps the world point under the cursor in place: with
\* w = (c - p) / z for cursor c, pan p and zoom z before the event, the new
\* zoom z' lies in [0.1, 5] and, with the new pan p', w * z' + p' = c, also
\* when z' was clamped.
C12_WheelPreservesAnchor ==
    [][\A e \in WheelEvents :
          (steps' = steps + 1 /\ handleWheel(e)) =>
              LET cx == R(e.clientX - CanvasLeft)
                  cy == R(e.clientY - CanvasTop)
                  wx == Div(Sub(cx, pan.x), zoom)
                  wy == Div(Sub(cy, pan.y), zoom)
              IN  /\ Le(<<1, 10>>, zoom') /\ Le(zoom', R(5))
                  /\ Add(Mul(wx, zoom'), pan'.x) = cx
                  /\ Add(Mul(wy, zoom'), pan'.y) = cy]_vars

\* One wheel event at zoom 4.6 and pan (10, -7), cursor at canvas (24, 0),
\* has been clamped to zoom 5 and has moved the pan off its old value.
C12_Witness ==
    /\ steps = 1
    /\ zoom = R(5)
    /\ pan = Pt(wheelPan(R(24), R(10), <<23, 5>>, R(5)),
                wheelPan(R(0), R(-7), <<23, 5>>, R(5)))
    /\ pan # Pt(R(10), R(-7))

\* C13: no two shapes of the scene have the same id, whatever draw commits and
\* imports produced them.  generateId joins the millisecond clock and a random
\* suffix and nothing compares its result with the ids in the scene, so two
\* calls may return the same string.
C13_IdsUnique ==
    \A i, j \in 1..Len(shapes) : i # j => shapes[i].id # shapes[j].id

\* shapes' is shapes with new shapes appended.
SceneGrows ==
    /\ Len(shapes') > Len(shapes)
    /\ SubSeq(shapes', 1, Len(shapes)) = shapes

\* A draw gesture commits: a pointer-up or pointer-leave while drawing appends
\* one shape.
CommitStep ==
    /\ isDrawing
    /\ \E e \in MoveEvents, id \in Ids : endDraw(e, id)
    /\ SceneGrows
    /\ Len(shapes') = Len(shapes) + 1

\* An import completes: the shapes of a file that was read are appended.
ImportStep ==
    /\ \E k \in 1..Len(pendingFiles) :
          \E ids \in [1..Len(pendingFiles[k]) -> Ids] : importResolved(k, ids)
    /\ SceneGrows

\* A delete removes the shapes whose ids are selected.
DeleteStep ==
    /\ handleKeyDown \/ onDelete
    /\ selectedShapeIds # {}
    /\ shapes' = Remaining(shapes, selectedShapeIds)

\* A pointer-move while dragging translates shapes by the drag delta.
DragStep ==
    /\ isDragging /\ ~isPanning
    /\ Len(shapes') = Len(shapes)
    /\ \E e \in MoveEvents :
          /\ draw(e)
          /\ \A i \in 1..Len(shapes) :
                \/ shapes'[i] = shapes[i]
                \/ Translated(shapes[i], shapes'[i],
                              Sub(pos(e).x, dragOffset.x), Sub(pos(e).y, dragOffset.y))

\* C14: the scene gains a shape only when a draw gesture commits or an import
\* completes, loses a shape only through a delete of the selected ids, and a
\* shape's geometry changes only by translation during a drag; pointer-down,
\* pointer-move outside a drag or while panning, a pointer-up that ends no
\* drawing, zoom-in, zoom-out, zoom-reset, wheel, the grid and axes toggles,
\* tool changes and choosing a file leave the scene unchanged.
C14_SceneChangesOnlyByCommitImportDeleteDrag ==
    [][shapes' # shapes =>
          /\ CommitStep \/ ImportStep \/ DeleteStep \/ DragStep
          /\ ~(PointerDown \/ ZoomIn \/ ZoomOut \/ ZoomReset \/ WheelAtStart \/ ToggleGrid
                 \/ ToggleAxes \/ ToolChange \/ ImportChosenAny)
          /\ ~((isPanning \/ ~isDragging) /\ PointerMove)
          /\ ~(~isDrawing /\ PointerUp)]_vars

\* The wheel has been turned and the grid and the axes have been switched off
\* over the imported scene, which is as it was imported.
C14_Witness ==
    /\ steps = 3
    /\ shapes = SceneAfterImport
    /\ zoom # R(1)
    /\ ~showGrid /\ ~showAxes

\* C15: in every reachable state every pen shape of the scene has at least 2
\* points, whether a pen gesture committed it or it was imported from a
\* polyline, polygon or path element.
C15_PenHasTwoPoints ==
    \A i \in 1..Len(shapes) : shapes[i].type = "pen" => Len(shapes[i].points) >= 2

\* SparseDoc has been imported into the scene that already held a pen shape:
\* its polyline, polygon and path were discarded and only its rectangle was
\* appended.
C15_Witness ==
    /\ Len(shapes) = 3
    /\ shapes[1].type = "pen"
    /\ shapes[3].type = "rect"
    /\ shapes[3].x = R(8) /\ shapes[3].w = R(16)

\* C16: in every reachable state every circle of the scene has a radius
\* r >= 0.  The importer takes the r attribute of a circle element as it is
\* written.
C16_CircleRadiusNonNegative ==
    \A i \in 1..Len(shapes) : shapes[i].type = "circle" => Le(R(0), shapes[i].r)

\* The least x and the least y over the coordinates a shape covers.
MinCorner(shape) ==
    CASE shape.type = "pen" ->
           Pt(MinOf(Xs(shape.points), 1), MinOf(Ys(shape.points), 1))
      [] shape.type = "rect" ->
           Pt(Min(shape.x, Add(shape.x, shape.w)), Min(shape.y, Add(shape.y, shape.h)))
      [] shape.type = "circle" ->
           Pt(Min(Sub(shape.cx, shape.r), Add(shape.cx, shape.r)),
              Min(Sub(shape.cy, shape.r), Add(shape.cy, shape.r)))
      [] shape.type = "line" ->
           Pt(Min(shape.x1, shape.x2), Min(shape.y1, shape.y2))

\* C17: the bounds of a shape are none only for a pen shape without points,
\* and otherwise a box with w >= 0 and h >= 0 whose (x, y) is the minimum
\* corner, in particular for a rect with a negative w or h.  Stated for the
\* shapes of the scene: getShapeBounds returns a rect's x, y, w, h as they
\* are stored.
C17_BoundsNormalized ==
    \A i \in 1..Len(shapes) :
       LET b == getShapeBounds(shapes[i])
       IN  IF shapes[i].type = "pen" /\ Len(shapes[i].points) = 0
           THEN b = NoBounds
           ELSE /\ b # NoBounds
                /\ Le(R(0), b.w) /\ Le(R(0), b.h)
                /\ Pt(b.x, b.y) = MinCorner(shapes[i])

\* The centre of a rect, and the centre moved by (w + 100, h + 100).
RectCenter(shape) ==
    Pt(Add(shape.x, Div(shape.w, R(2))), Add(shape.y, Div(shape.h, R(2))))

RectFarPoint(shape) ==
    Pt(Add(RectCenter(shape).x, Add(shape.w, R(100))),
       Add(RectCenter(shape).y, Add(shape.h, R(100))))

\* C18: for every rect a rect gesture can commit, a negative w or h included,
\* the hit test is true at the rect's centre (x + w/2, y + h/2) and false at
\* the centre moved by (w + 100, h + 100).  Stated for the rects of the scene:
\* isPointInShape compares against x and x + w in that order.
C18_RectHitAtCenter ==
    \A i \in 1..Len(shapes) :
       shapes[i].type = "rect" =>
          /\ isPointInShape(RectCenter(shapes[i]), shapes[i], zoom)
          /\ ~isPointInShape(RectFarPoint(shapes[i]), shapes[i], zoom)

C20_SnapNearestMultiple ==
    [][(steps' = steps + 1 /\ start' = Pt(snap(start.x), snap(start.y))) =>
          \A v \in {<<start.x, start'.x>>, <<start.y, start'.y>>} :
             /\ NearestGrid(v[2], v[1])
             /\ \A k \in -3..3 :
                   Le(Abs(Sub(v[2], v[1])), Abs(Sub(R(k * GRID_SIZE), v[1])))
             /\ snap(v[2]) = v[2]]_vars

\* A raw point off the grid, such as (-21/2, 15), has been snapped to (-20, 20).
C20_Witness ==
    /\ steps = 1
    /\ start = Pt(R(-20), R(20))

\* Every coordinate of a shape that has to lie on the grid.
GridAligned(shape) ==
    CASE shape.type = "pen" ->
           \A i \in 1..Len(shape.points) :
              OnGrid(shape.points[i].x) /\ OnGrid(shape.points[i].y)
      [] shape.type = "rect" ->
           OnGrid(shape.x) /\ OnGrid(shape.y) /\ OnGrid(shape.w) /\ OnGrid(shape.h)
      [] shape.type = "circle" -> OnGrid(shape.cx) /\ OnGrid(shape.cy)
      [] shape.type = "line" ->
           OnGrid(shape.x1) /\ OnGrid(shape.y1) /\ OnGrid(shape.x2) /\ OnGrid(shape.y2)

\* C21: a shape committed by a draw gesture is grid-aligned when it is
\* committed, at any zoom and pan: every pen point, a rect's x, y, w and h, a
\* circle's cx and cy and a line's end points are multiples of 20.
C21_CommittedShapeOnGrid ==
    [][(isDrawing /\ Len(shapes') = Len(shapes) + 1) =>
          \A e \in MoveEvents, id \in Ids :
             (Tick /\ endDraw(e, id)) => GridAligned(shapes'[Len(shapes')])]_vars

\* At zoom 1.2 the scene ends with a line of non-zero length drawn with the
\* line tool.
C21_Witness ==
    /\ tool = "line"
    /\ zoom = <<6, 5>>
    /\ ~isDrawing
    /\ shapes # <<>>
    /\ LastShape.type = "line"
    /\ LastShape.x1 # LastShape.x2
    /\ GridAligned(LastShape)

\* The step is the end of the k-th pending read.
ReadOf(k) ==
    /\ Len(pendingFiles') < Len(pendingFiles)
    /\ pendingFiles' = [i \in 1..(Len(pendingFiles) - 1) |->
                           IF i < k THEN pendingFiles[i] ELSE pendingFiles[i + 1]]

\* The shapes the step appended.
Appended == SubSeq(shapes', Len(shapes) + 1, Len(shapes'))

InSeq(x, seq) == \E j \in 1..Len(seq) : seq[j] = x

\* A shape without its id.
Geometry(shape) == [f \in DOMAIN shape \ {"id"} |-> shape[f]]

GeometryOf(seq) == [j \in 1..Len(seq) |-> Geometry(seq[j])]

\* The targets of the M, m, L and l commands of a path, each from the
\* command's own arguments, in order; current is the point reached so far.
RECURSIVE pathTargets(_, _, _)
pathTargets(d, i, current) ==
    IF i > Len(d) THEN <<>>
    ELSE IF d[i].cmd \in {"M", "m", "L", "l"} /\ Len(d[i].args) >= 2
    THEN LET a == d[i].args
             next == IF d[i].cmd \in {"m", "l"}
                     THEN Pt(Add(current.x, a[1].val), Add(current.y, a[2].val))
                     ELSE Pt(a[1].val, a[2].val)
         IN  <<next>> \o pathTargets(d, i + 1, next)
    ELSE pathTargets(d, i + 1, current)

\* What each path element of a document has to become, ids left out.
RECURSIVE pathShapes(_, _)
pathShapes(doc, i) ==
    IF i > Len(doc) THEN <<>>
    ELSE (IF doc[i].tag = "path"
          THEN LET points == pathTargets(doc[i].attrs["d"], 1, Pt(R(0), R(0)))
               IN  IF Len(points) < 2 THEN <<>>
                   ELSE <<[type |-> "pen", points |-> points]>>
          ELSE <<>>)
         \o pathShapes(doc, i + 1)

\* The pen shapes among seq.
PenShapes(seq) == SelectSeq(seq, LAMBDA shape : shape.type = "pen")

HasPath(doc) == \E i \in 1..Len(doc) : doc[i].tag = "path"

\* C22: an imported path becomes a pen shape whose points are, in order, the
\* targets of its M, m, L and l commands, each computed from that command's
\* own arguments; any other command, wherever it stands, adds no point and
\* changes none; a path that gives fewer than 2 points is discarded.  Stated
\* for documents whose pen shapes all come from path elements.
C22_PathPointsFromOwnArguments ==
    [][\A k \in 1..Len(pendingFiles) :
          (ReadOf(k) /\ HasPath(pendingFiles[k])
             /\ \A i \in 1..Len(pendingFiles[k]) :
                   pendingFiles[k][i].tag \notin {"polyline", "polygon"}) =>
             GeometryOf(PenShapes(Appended)) = pathShapes(pendingFiles[k], 1)]_vars

\* The number written in an attribute, 0 for an attribute that is missing.
attrValue(el, name) == IF name \in DOMAIN el.attrs THEN el.attrs[name].val ELSE R(0)

\* Every attribute among names that el carries holds a number.
NumericAttrs(el, names) ==
    \A name \in names \cap DOMAIN el.attrs : el.attrs[name].num

\* C23: an imported rect element becomes a rect shape with x, y, w, h equal to
\* its attributes x, y, width, height, and an imported circle element a circle
\* with its cx, cy, r; an attribute that is missing counts as 0.
C23_RectAndCircleAttributes ==
    [][\A k \in 1..Len(pendingFiles) :
          ReadOf(k) =>
             \A i \in 1..Len(pendingFiles[k]) :
                LET el == pendingFiles[k][i]
                IN  /\ (el.tag = "rect"
                          /\ NumericAttrs(el, {"x", "y", "width", "height"})) =>
                       InSeq([type |-> "rect",
                              x |-> attrValue(el, "x"), y |-> attrValue(el, "y"),
                              w |-> attrValue(el, "width"),
                              h |-> attrValue(el, "height")], GeometryOf(Appended))
                    /\ (el.tag = "circle" /\ NumericAttrs(el, {"cx", "cy", "r"})) =>
                       InSeq([type |-> "circle",
                              cx |-> attrValue(el, "cx"), cy |-> attrValue(el, "cy"),
                              r |-> attrValue(el, "r")], GeometryOf(Appended))]_vars

\* PartialDoc was imported: a rect from a width alone, a circle from a cx
\* alone and a circle from no attribute at all.
C23_Witness ==
    /\ Len(shapes) = 3
    /\ shapes[1].type = "rect" /\ shapes[1].w = R(30)
    /\ shapes[1].x = R(0) /\ shapes[1].y = R(0) /\ shapes[1].h = R(0)
    /\ shapes[2].type = "circle" /\ shapes[2].cx = R(8)
    /\ shapes[2].cy = R(0) /\ shapes[2].r = R(0)
    /\ shapes[3].type = "circle" /\ shapes[3].cx = R(0) /\ shapes[3].r = R(0)

\* The shapes a document gives, in document order, ids left out.
ShapesOfDoc(doc) == GeometryOf(importedShapes(doc, [i \in 1..Len(doc) |-> 1], 1))

\* C24: an import appends the shapes it produced, in document order, behind
\* the shapes of the scene, which keep their ids, geometry and order; it
\* leaves selection, tool, controller mode and viewport as they are; an
\* import that produces no shape leaves the scene as it is.
C24_ImportAppends ==
    [][\A k \in 1..Len(pendingFiles) :
          ReadOf(k) =>
             /\ SubSeq(shapes', 1, Len(shapes)) = shapes
             /\ GeometryOf(Appended) = ShapesOfDoc(pendingFiles[k])
             /\ ShapesOfDoc(pendingFiles[k]) = <<>> => shapes' = shapes
             /\ UNCHANGED <<selectedShapeIds, tool, isDrawing, isPanning, isDragging,
                            zoom, pan>>]_vars

\* SparseDoc's rect was appended behind the two imported shapes while one of
\* them was selected and being dragged.
C24_Witness ==
    /\ Len(shapes) = 3
    /\ SubSeq(shapes, 1, 2) = SceneAfterImport
    /\ GeometryOf(SubSeq(shapes, 3, 3)) = ShapesOfDoc(SparseDoc)
    /\ selectedShapeIds # {}
    /\ isDragging
    /\ pendingFiles = <<>>

\* The numbers that make up a shape's geometry.
Coordinates(shape) ==
    CASE shape.type = "pen" ->
           {shape.points[j].x : j \in 1..Len(shape.points)}
              \cup {shape.points[j].y : j \in 1..Len(shape.points)}
      [] shape.type = "rect" -> {shape.x, shape.y, shape.w, shape.h}
      [] shape.type = "circle" -> {shape.cx, shape.cy, shape.r}
      [] shape.type = "line" -> {shape.x1, shape.y1, shape.x2, shape.y2}

\* C25: an element whose coordinate attribute does not parse as a number is
\* skipped by the import, so no shape with a NaN coordinate is ever in the
\* scene.
C25_NoNaNInScene ==
    \A i \in 1..Len(shapes) : NaN \notin Coordinates(shapes[i])

\* C26: a draw commit, a drag translation or a delete that happens between
\* the moment a file is chosen and the moment its text has been read is
\* neither lost nor undone: after the read the scene is the scene as it was
\* just before the read completed, followed by the shapes of the file.
C26_NoUpdateLost ==
    [][Len(pendingFiles') < Len(pendingFiles) =>
          LET read == reads'.done[1]
          IN  read.atStart # read.atEnd =>
                 /\ SubSeq(shapes', 1, Len(read.atEnd)) = read.atEnd
                 /\ GeometryOf(SubSeq(shapes', Len(read.atEnd) + 1, Len(shapes')))
                       = ShapesOfDoc(read.doc)]_vars

\* A read has completed over a scene from which a shape was deleted while the
\* file was being read: the deleted shape has not come back and the file's
\* rect stands behind the remaining shape.
C26_Witness ==
    /\ reads.done # <<>>
    /\ reads.done[1].atStart = SceneAfterImport
    /\ Len(reads.done[1].atEnd) = 1
    /\ Len(shapes) = 2
    /\ shapes[1] = reads.done[1].atEnd[1]
    /\ GeometryOf(SubSeq(shapes, 2, 2)) = ShapesOfDoc(RectDoc)

\* A read has completed over a scene in which a shape was dragged while the
\* file was being read.
C26_WitnessDrag ==
    /\ reads.done # <<>>
    /\ reads.done[1].atStart = SceneAfterImport
    /\ Len(reads.done[1].atEnd) = 2
    /\ reads.done[1].atEnd # SceneAfterImport
    /\ SubSeq(shapes, 1, 2) = reads.done[1].atEnd
    /\ Len(shapes) = 3

\* A read has completed over a scene to which a gesture committed a shape
\* while the file was being read.
C26_WitnessCommit ==
    /\ reads.done # <<>>
    /\ reads.done[1].atStart = <<>>
    /\ Len(reads.done[1].atEnd) = 1
    /\ SubSeq(shapes, 1, 1) = reads.done[1].atEnd
    /\ Len(shapes) = 2

\* C27: while the rendering context is unavailable, a pointer-down with a
\* draw tool, a pointer-move and a pointer-up change neither the controller
\* mode nor the start point, the pen buffer or the scene.  Stated for events
\* outside a pan.
C27_NoContextNoChange ==
    [][(~hasCtx /\ tool # "select" /\ ~isPanning
          /\ \/ \E e \in MouseEvents : ~PanModifier(e) /\ startDraw(e)
             \/ \E e \in MoveEvents : draw(e)
             \/ \E e \in MoveEvents, id \in Ids : endDraw(e, id)) =>
          UNCHANGED <<isDrawing, isPanning, isDragging, start, currentPenPoints,
                      shapes>>]_vars

\* C28: in every reachable state at most one of the panning, drawing and
\* dragging flags is set.
C28_ModesExclusive ==
    /\ ~(isPanning /\ isDrawing)
    /\ ~(isPanning /\ isDragging)
    /\ ~(isDrawing /\ isDragging)

\* C29: during a drag started by a click without shift on a shape S, after
\* every pointer-move to the world point p the origin of the bounds of S is p
\* minus the drag offset.  Stated for scenes whose ids are distinct.
C29_DraggedShapeFollowsPointer ==
    [][(isDragging /\ ~isPanning /\ ~isDrawing /\ tool = "select"
          /\ lastDown.branch = "hit" /\ Cardinality(SceneIds) = Len(shapes)) =>
          \A e \in MoveEvents :
             (Tick /\ draw(e)) =>
                \A i \in 1..Len(shapes) :
                   shapes[i].id \in selectedShapeIds =>
                      /\ getShapeBounds(shapes'[i]).x = Sub(pos(e).x, dragOffset.x)
                      /\ getShapeBounds(shapes'[i]).y = Sub(pos(e).y, dragOffset.y)]_vars

\* C30: in every reachable state a selection that is not empty implies that
\* the tool is select.
C30_SelectionImpliesSelectTool == selectedShapeIds # {} => tool = "select"

\* A shape was selected with the select tool and the tool was then changed:
\* the selection is empty again, the shape still in the scene.
C30_Witness ==
    /\ tool = "rect"
    /\ selectedShapeIds = {}
    /\ lastDown.branch = "hit"
    /\ shapes # <<>>

\* C31: the points of a committed pen shape are the snapped pointer-down
\* point of its own gesture followed by the snapped positions of that
\* gesture's pointer-moves, one per move and in order, with no point of an
\* earlier gesture, also when the tool is changed between or during
\* gestures.  start is the snapped pointer-down point of the gesture under
\* way: the shape a pointer-up commits as a pen has to begin with it, and each
\* move of a pen gesture has to add its snapped position at the end.
C31_PenPointsOfOwnGesture ==
    [][(isDrawing /\ ~isPanning /\ ~isDragging) =>
          /\ (Len(shapes') = Len(shapes) + 1 /\ shapes'[Len(shapes')].type = "pen") =>
                \A e \in MoveEvents, id \in Ids :
                   (Tick /\ endDraw(e, id)) =>
                      shapes'[Len(shapes')].points[1] = start
          /\ tool = "pen" =>
                \A e \in MoveEvents :
                   (Tick /\ draw(e)) =>
                      currentPenPoints' = Append(currentPenPoints, snapPoint(pos(e)))]_vars

\* The state SpecPen also starts from is one the page reaches: a pen gesture
\* of one point was discarded and the rect tool chosen.
AfterDiscardedPenReached ==
    /\ tool = "rect"
    /\ ~isDrawing /\ ~isPanning /\ ~isDragging
    /\ start = Pt(R(20), R(0))
    /\ currentPenPoints = <<Pt(R(20), R(0))>>
    /\ shapes = <<>>
    /\ lastDown.branch = "draw"
    /\ zoom = R(1) /\ pan = Pt(R(0), R(0))

\* A request that asks for a larger zoom: the zoom-in button or a wheel-up
\* tick.
ZoomUp == ZoomInPressed \/ (UNCHANGED steps /\ \E e \in OriginWheelEvents :
                                                  e.deltaY <= 0 /\ handleWheel(e))

\* A request that asks for a smaller zoom: the zoom-out button or a
\* wheel-down tick.
ZoomDown == ZoomOutPressed \/ (UNCHANGED steps /\ \E e \in OriginWheelEvents :
                                                     e.deltaY > 0 /\ handleWheel(e))

\* Whatever the rounding gives, the next zoom-in and the next wheel-up tick
\* raise the zoom while it is below 5 and the next zoom-out and the next
\* wheel-down tick lower it while it is above 0.1.
ZoomStepsMove ==
    /\ Lt(zoom, R(5)) =>
          /\ \A r \in ZoomInResults(zoom) : Lt(zoom, r)
          /\ \A r \in WheelResults(zoom, -100) : Lt(zoom, r)
    /\ Lt(<<1, 10>>, zoom) =>
          /\ \A r \in ZoomOutResults(zoom) : Lt(r, zoom)
          /\ \A r \in WheelResults(zoom, 100) : Lt(r, zoom)

\* From some point on every event is a request for a larger zoom, and such
\* requests keep being made as long as the zoom is below 5.
OnlyZoomUpRepeated ==
    /\ <>[][ZoomUp]_vars
    /\ []<>(zoom = R(5)) \/ []<><<ZoomUp>>_vars

\* From some point on every event is a request for a smaller zoom, and such
\* requests keep being made as long as the zoom is above 0.1.
OnlyZoomDownRepeated ==
    /\ <>[][ZoomDown]_vars
    /\ []<>(zoom = <<1, 10>>) \/ []<><<ZoomDown>>_vars

\* C32: every zoom-in request and every wheel-up tick strictly increases the
\* zoom while it is below 5, every zoom-out request and every wheel-down tick
\* strictly decreases it while it is above 0.1; so repeated requests for a
\* larger zoom bring the zoom to 5, where it stays, and repeated requests for
\* a smaller zoom bring it to 0.1.
C32_ZoomSteppingProgresses ==
    /\ []ZoomStepsMove
    /\ OnlyZoomUpRepeated => <>[](zoom = R(5))
    /\ OnlyZoomDownRepeated => <>[](zoom = <<1, 10>>)

\* Zoom-out requests have brought the zoom from 1 down to the lower bound.
C32_Witness == zoom = <<1, 10>> /\ pan = Pt(R(0), R(0)) /\ tool = "pen"

\* Repeated requests for a larger zoom do not stop below 5: the same
\* statement with 4 for 5 fails.
C32_StopsAtFour == OnlyZoomUpRepeated => <>[](zoom = R(4))

=============================================================================
